---- MODULE Spec2Model ----
(***************************************************************************)
(* A model of movatalk's declarative pipeline engine                       *)
(* (src/src/movatalk/pipeline/engine.py, components.py).                   *)
(*                                                                         *)
(* Python data (documents, params, the execution context) is modelled as   *)
(* JSON-like values.  A value is a record with the same five fields        *)
(* whatever its Python type:                                               *)
(*   t : "int" | "bool" | "none" | "str" | "dict" | "list"                 *)
(*   n : the number of an int, 0/1 of a bool                               *)
(*   s : the text of a str, as a sequence of atoms                         *)
(*   d : the items of a dict, in insertion order, as <<[k, v], ...>>       *)
(*   l : the elements of a list                                            *)
(* An object that is not data (a collaborator's handle) has t = "obj",     *)
(* its identity in n, its class in s and the entries it keeps in d.        *)
(* The text of a str is a sequence of atoms so that the engine's regular   *)
(* expression can be applied to it: an atom is either literal text that    *)
(* holds no "${...}" token, or one token ${PATH} with PATH split at the    *)
(* dots.  Adjacent literal atoms are always merged (SNorm), so two equal   *)
(* Python strings are equal values.                                        *)
(***************************************************************************)
EXTENDS Integers, Sequences, FiniteSets, TLC

VARIABLES
    docs,               \* the caller's document objects (mutable dicts), by id
    current_pipeline,   \* PipelineEngine.current_pipeline: "None" or a doc id
    pipeline_context,   \* PipelineEngine.pipeline_context (a dict value)
    ctx_alias,          \* the doc whose 'variables' dict IS the context's, or "None"
    running,            \* PipelineEngine.running
    execution_thread,   \* PipelineEngine.execution_thread: 0 (None) or a run id
    runs,               \* the activations of _execute_pipeline, by run id
    nruns,              \* how many activations were created
    caller,             \* what the API caller is doing
    last_call,          \* the last API call that returned, and its return value
    hist,               \* observations of the runs (history, not program state)
    probe,              \* the one step or string a single-step run was given,
                        \* with the context before it and what came out
    registry,           \* PipelineEngine.registry: the executor class by name
    lora                \* a LoRaConnector (kidsvoiceai/hardware/lora.py), its
                        \* sender thread and the threads that call it

vars == <<docs, current_pipeline, pipeline_context, ctx_alias, running,
          execution_thread, runs, nruns, caller, last_call, hist, probe, registry,
          lora>>

----------------------------------------------------------------------------
(* Python values *)

Lit(text) == [isref |-> FALSE, lit |-> text, path |-> <<>>]
Ref(p) == [isref |-> TRUE, lit |-> "", path |-> p]

VNone == [t |-> "none", n |-> 0, s |-> <<>>, d |-> <<>>, l |-> <<>>]
VInt(i) == [t |-> "int", n |-> i, s |-> <<>>, d |-> <<>>, l |-> <<>>]
VBool(b) == [t |-> "bool", n |-> IF b THEN 1 ELSE 0, s |-> <<>>, d |-> <<>>, l |-> <<>>]
VStr(atoms) == [t |-> "str", n |-> 0, s |-> atoms, d |-> <<>>, l |-> <<>>]
VLit(text) == VStr(IF text = "" THEN <<>> ELSE <<Lit(text)>>)
VRef(p) == VStr(<<Ref(p)>>)
VDict(items) == [t |-> "dict", n |-> 0, s |-> <<>>, d |-> items, l |-> <<>>]
VList(elems) == [t |-> "list", n |-> 0, s |-> <<>>, d |-> <<>>, l |-> elems]
KV(key, val) == [k |-> key, v |-> val]
VObj(class, id, entries) ==
    [t |-> "obj", n |-> id, s |-> <<Lit(class)>>, d |-> entries, l |-> <<>>]

\* bool(x) of a value: Python truthiness
Truthy(v) ==
    CASE v.t = "none" -> FALSE
      [] v.t = "int" -> v.n # 0
      [] v.t = "bool" -> v.n = 1
      [] v.t = "str" -> v.s # <<>>
      [] v.t = "dict" -> v.d # <<>>
      [] v.t = "obj" -> TRUE
      [] OTHER -> v.l # <<>>

\* string concatenation: literal text that meets is one piece of text
RECURSIVE SNorm(_)
SNorm(atoms) ==
    IF atoms = <<>> THEN <<>>
    ELSE LET a == Head(atoms)
             rest == SNorm(Tail(atoms))
         IN  IF ~a.isref /\ a.lit = "" THEN rest
             ELSE IF ~a.isref /\ rest # <<>> /\ ~rest[1].isref
                  THEN <<Lit(a.lit \o rest[1].lit)>> \o Tail(rest)
                  ELSE <<a>> \o rest

SCat(a, b) == SNorm(a \o b)

RECURSIVE JoinPath(_)
JoinPath(p) ==
    IF p = <<>> THEN ""
    ELSE IF Len(p) = 1 THEN p[1]
    ELSE p[1] \o "." \o JoinPath(Tail(p))

\* the characters of a str, e.g. for use as a dict key
RECURSIVE TextOf(_)
TextOf(atoms) ==
    IF atoms = <<>> THEN ""
    ELSE (IF atoms[1].isref THEN "${" \o JoinPath(atoms[1].path) \o "}"
          ELSE atoms[1].lit) \o TextOf(Tail(atoms))

\* dict operations (insertion-ordered)
DHas(items, key) == \E i \in DOMAIN items : items[i].k = key
DGet(items, key, default) ==
    IF DHas(items, key)
    THEN items[CHOOSE i \in DOMAIN items : items[i].k = key].v
    ELSE default
DSet(items, key, val) ==
    IF DHas(items, key)
    THEN [i \in DOMAIN items |-> IF items[i].k = key THEN KV(key, val) ELSE items[i]]
    ELSE Append(items, KV(key, val))
DKeys(items) == {items[i].k : i \in DOMAIN items}

\* str(x) and repr(x), as text
RECURSIVE PyRepr(_), PyReprItems(_), PyReprElems(_)
PyStr(v) ==
    CASE v.t = "none" -> <<Lit("None")>>
      [] v.t = "int" -> <<Lit(ToString(v.n))>>
      [] v.t = "bool" -> <<Lit(IF v.n = 1 THEN "True" ELSE "False")>>
      [] v.t = "str" -> v.s
      [] v.t = "dict" -> SNorm(<<Lit("{")>> \o PyReprItems(v.d) \o <<Lit("}")>>)
      [] v.t = "obj" -> SNorm(<<Lit("<")>> \o v.s \o <<Lit(" object>")>>)
      [] OTHER -> SNorm(<<Lit("[")>> \o PyReprElems(v.l) \o <<Lit("]")>>)
PyRepr(v) ==
    IF v.t = "str" THEN SNorm(<<Lit("'")>> \o v.s \o <<Lit("'")>>) ELSE PyStr(v)
PyReprItems(items) ==
    IF items = <<>> THEN <<>>
    ELSE <<Lit("'" \o items[1].k \o "': ")>> \o PyRepr(items[1].v)
         \o (IF Len(items) > 1 THEN <<Lit(", ")>> ELSE <<>>)
         \o PyReprItems(Tail(items))
PyReprElems(elems) ==
    IF elems = <<>> THEN <<>>
    ELSE PyRepr(elems[1])
         \o (IF Len(elems) > 1 THEN <<Lit(", ")>> ELSE <<>>)
         \o PyReprElems(Tail(elems))

----------------------------------------------------------------------------
(* Variable Resolver: engine.py, _resolve_variables_in_string *)

ContextRoots == {"variables", "results", "errors", "state"}

\* a walk that only descends: a segment is always a key of the map the walk
\* has reached
RECURSIVE WalkPlain(_, _, _)
WalkPlain(ctx, parts, current) ==
    IF parts = <<>> THEN [ok |-> TRUE, v |-> current]
    ELSE IF current.t = "dict"
    THEN WalkPlain(ctx, Tail(parts), DGet(current.d, Head(parts), VLit("")))
    ELSE [ok |-> FALSE, v |-> VNone]

\* the walk of replace_var over var_parts; ok = FALSE stands for `return ""`
\* (a non-dict met on the way, or the KeyError caught by the bare except)
RECURSIVE WalkPath(_, _, _)
WalkPath(ctx, parts, current) ==
    IF parts = <<>> THEN [ok |-> TRUE, v |-> current]
    ELSE LET part == Head(parts)
         IN  IF part \in ContextRoots
             THEN IF DHas(ctx.d, part)
                  THEN WalkPath(ctx, Tail(parts), DGet(ctx.d, part, VNone))
                  ELSE [ok |-> FALSE, v |-> VNone]
             ELSE IF current.t = "dict"
                  THEN WalkPath(ctx, Tail(parts), DGet(current.d, part, VLit("")))
                  ELSE [ok |-> FALSE, v |-> VNone]

replace_var(ctx, path) ==
    LET w == WalkPath(ctx, path, ctx)
    IN  IF w.ok THEN PyStr(w.v) ELSE <<>>

\* re.sub over the text: every ${PATH} token is replaced, the replacement is
\* not scanned again, the text between tokens is kept
RECURSIVE ResolveAtoms(_, _)
ResolveAtoms(ctx, atoms) ==
    IF atoms = <<>> THEN <<>>
    ELSE (IF atoms[1].isref THEN replace_var(ctx, atoms[1].path) ELSE <<atoms[1]>>)
         \o ResolveAtoms(ctx, Tail(atoms))

\* a resolver that stops at the first token it replaced
resolve_first_token(ctx, text) ==
    IF text.t # "str" THEN text
    ELSE IF \E i \in DOMAIN text.s : text.s[i].isref
    THEN LET i == CHOOSE j \in DOMAIN text.s :
                      text.s[j].isref /\ \A k \in 1..(j - 1) : ~text.s[k].isref
         IN  VStr(SNorm(SubSeq(text.s, 1, i - 1) \o replace_var(ctx, text.s[i].path)))
    ELSE text

resolve_variables_in_string(ctx, text) ==
    IF text.t # "str" THEN text ELSE VStr(SNorm(ResolveAtoms(ctx, text.s)))

\* a resolver that hands on the referenced value itself when a string is
\* one reference and nothing else
RECURSIVE resolve_variables_typed(_, _)
resolve_variables_typed(ctx, data) ==
    CASE data.t = "str" ->
            IF Len(data.s) = 1 /\ data.s[1].isref /\ WalkPath(ctx, data.s[1].path, ctx).ok
            THEN WalkPath(ctx, data.s[1].path, ctx).v
            ELSE resolve_variables_in_string(ctx, data)
      [] data.t = "dict" ->
            VDict([i \in DOMAIN data.d |->
                      KV(data.d[i].k, resolve_variables_typed(ctx, data.d[i].v))])
      [] data.t = "list" ->
            VList([i \in DOMAIN data.l |-> resolve_variables_typed(ctx, data.l[i])])
      [] OTHER -> data

RECURSIVE resolve_variables(_, _)
resolve_variables(ctx, data) ==
    CASE data.t = "str" -> resolve_variables_in_string(ctx, data)
      [] data.t = "dict" ->
            VDict([i \in DOMAIN data.d |->
                      KV(data.d[i].k, resolve_variables(ctx, data.d[i].v))])
      [] data.t = "list" ->
            VList([i \in DOMAIN data.l |-> resolve_variables(ctx, data.l[i])])
      [] OTHER -> data

----------------------------------------------------------------------------
(* Condition Evaluator: engine.py, _evaluate_condition *)

\* Python ==: numbers compare by value across int and bool
PyEq(a, b) ==
    IF a.t \in {"int", "bool"} /\ b.t \in {"int", "bool"} THEN a.n = b.n ELSE a = b

\* the names an expression can look up: eval_context of _evaluate_condition
\* (engine.py), eval_env of the condition and loop components (components.py)
GuardNames == {"context", "variables", "results", "errors"}
ComponentNames == {"context", "variables", "state", "results"}

\* name['key'] == <val> inside eval, where name (or context['root']) stands
\* for context[root]: a NameError when name is not among the names, a
\* KeyError when the key is absent
SubscriptEq(ctx, names, name, root, key, val) ==
    LET m == DGet(ctx.d, root, VDict(<<>>))
    IN  IF name \in names /\ m.t = "dict" /\ DHas(m.d, key)
        THEN [raised |-> FALSE, v |-> VBool(PyEq(DGet(m.d, key, VNone), val))]
        ELSE [raised |-> TRUE, v |-> VNone]

\* eval(condition, {}, names) on the expression texts the documents use;
\* any other text is taken not to be a Python expression (SyntaxError)
PyEval(expr, ctx, names) ==
    CASE expr = "True" -> [raised |-> FALSE, v |-> VBool(TRUE)]
      [] expr = "False" -> [raised |-> FALSE, v |-> VBool(FALSE)]
      [] expr = "1 == 1" -> [raised |-> FALSE, v |-> VBool(TRUE)]
      [] expr = "1 == 2" -> [raised |-> FALSE, v |-> VBool(FALSE)]
      [] expr = "0 == 1" -> [raised |-> FALSE, v |-> VBool(FALSE)]
      [] expr = "2 == 1" -> [raised |-> FALSE, v |-> VBool(FALSE)]
      [] expr = "variables['a'] == 1" ->
             SubscriptEq(ctx, names, "variables", "variables", "a", VInt(1))
      [] expr = "variables['a'] == 2" ->
             SubscriptEq(ctx, names, "variables", "variables", "a", VInt(2))
      [] expr = "variables['x'] == 1" ->
             SubscriptEq(ctx, names, "variables", "variables", "x", VInt(1))
      [] expr = "variables['loop_index'] == 0" ->
             SubscriptEq(ctx, names, "variables", "variables", "loop_index", VInt(0))
      [] expr = "variables['loop_index'] == 1" ->
             SubscriptEq(ctx, names, "variables", "variables", "loop_index", VInt(1))
      [] expr = "variables['loop_index'] == 2" ->
             SubscriptEq(ctx, names, "variables", "variables", "loop_index", VInt(2))
      [] expr = "results['x'] == 1" ->
             SubscriptEq(ctx, names, "results", "results", "x", VInt(1))
      [] expr = "state['x'] == 1" ->
             SubscriptEq(ctx, names, "state", "state", "x", VInt(1))
      [] expr = "context['state']['x'] == 1" ->
             SubscriptEq(ctx, names, "context", "state", "x", VInt(1))
      [] expr = "errors == []" ->
             IF "errors" \in names
             THEN [raised |-> FALSE,
                   v |-> VBool(DGet(ctx.d, "errors", VNone) = VList(<<>>))]
             ELSE [raised |-> TRUE, v |-> VNone]
      [] expr = "undefined_name" -> [raised |-> TRUE, v |-> VNone]
      [] OTHER -> [raised |-> TRUE, v |-> VNone]

\* eval() of anything but a str raises TypeError; eval_context itself needs
\* the context's variables, results and errors (KeyError otherwise)
evaluate_condition(condition, ctx) ==
    IF condition = VNone THEN TRUE
    ELSE LET c == resolve_variables_in_string(ctx, condition)
         IN  IF c.t # "str" THEN FALSE
             ELSE IF ~({"variables", "results", "errors"} \subseteq DKeys(ctx.d))
                  THEN FALSE
             ELSE LET e == PyEval(TextOf(c.s), ctx, GuardNames)
                  IN  IF e.raised THEN FALSE ELSE Truthy(e.v)

----------------------------------------------------------------------------
(* What a handler hands back: a (success, result) pair and the context as  *)
(* it left it, or an exception with its message.  Message texts are the    *)
(* source's, written without diacritics.                                   *)

Ret(ok, res, ctx) == [raised |-> FALSE, msg |-> <<>>, ok |-> ok, res |-> res, ctx |-> ctx]
Raise(msg, ctx) == [raised |-> TRUE, msg |-> msg, ok |-> FALSE, res |-> VNone, ctx |-> ctx]
ErrDict(msg) == VDict(<<KV("error", VStr(msg))>>)

\* context[root][key] = val; context[root] is created when absent, as the
\* components do before they write
CtxPut(ctx, root, key, val) ==
    LET m == DGet(ctx.d, root, VDict(<<>>))
    IN  VDict(DSet(ctx.d, root, VDict(DSet(m.d, key, val))))

\* context['errors'].append(msg)
AppendError(ctx, msg) ==
    LET e == DGet(ctx.d, "errors", VList(<<>>))
    IN  VDict(DSet(ctx.d, "errors", VList(Append(e.l, VStr(msg)))))

\* a str used as a dict key
KeyOf(v) == TextOf(PyStr(v))

\* a union in which the value already there wins
RECURSIVE DMergeKeep(_, _)
DMergeKeep(a, b) ==
    IF b = <<>> THEN a
    ELSE DMergeKeep(IF DHas(a, b[1].k) THEN a ELSE Append(a, b[1]), Tail(b))

\* {**a, **b}
RECURSIVE DMerge(_, _)
DMerge(a, b) == IF b = <<>> THEN a ELSE DMerge(DSet(a, b[1].k, b[1].v), Tail(b))

----------------------------------------------------------------------------
(* Component.validate_params, Component.get_param: components.py           *)

RECURSIVE MissingParams(_, _)
MissingParams(params, required) ==
    IF required = <<>> THEN <<>>
    ELSE (IF DHas(params.d, Head(required)) THEN <<>> ELSE <<Head(required)>>)
         \o MissingParams(params, Tail(required))

RECURSIVE JoinComma(_)
JoinComma(names) ==
    IF names = <<>> THEN ""
    ELSE IF Len(names) = 1 THEN names[1]
    ELSE names[1] \o ", " \o JoinComma(Tail(names))

\* a validation that lets every params through
validate_params_lenient(component, params, required) == <<>>

\* the message of the ValueError validate_params raises, <<>> when it passes
validate_params(component, params, required) ==
    LET missing == MissingParams(params, required)
    IN  IF missing = <<>> THEN <<>>
        ELSE <<Lit("Brakujace parametry dla komponentu " \o component \o ": "
                   \o JoinComma(missing))>>

get_param(params, name, default) == DGet(params.d, name, default)

----------------------------------------------------------------------------
(* VariableSetComponent.execute: components.py                             *)

\* the component's own walk for a value that starts with "${" and ends with
\* "}": current = current.get(part, "") from the context's top, which fails
\* (AttributeError) as soon as current is not a dict
RECURSIVE GetWalk(_, _)
GetWalk(current, parts) ==
    IF parts = <<>> THEN [ok |-> TRUE, v |-> current]
    ELSE IF current.t # "dict" THEN [ok |-> FALSE, v |-> VNone]
    ELSE GetWalk(DGet(current.d, Head(parts), VLit("")), Tail(parts))

\* value.startswith("${") and value.endswith("}")
StartsEndsAsRef(v) ==
    v.t = "str" /\ v.s # <<>> /\ v.s[1].isref /\ v.s[Len(v.s)].isref

\* value[2:-1].strip().split('.'): for a text that is one ${PATH} token, the
\* PATH's segments; for a longer text the first token's last segment, the
\* text in between and the last token's first segment are one segment
\* (literal text between tokens is taken to hold no dot)
InnerParts(v) ==
    IF Len(v.s) = 1 THEN v.s[1].path
    ELSE LET first == v.s[1].path
             last == v.s[Len(v.s)].path
             glue == first[Len(first)] \o "}"
                     \o TextOf(SubSeq(v.s, 2, Len(v.s) - 1))
                     \o "${" \o last[1]
         IN  SubSeq(first, 1, Len(first) - 1) \o <<glue>> \o Tail(last)

VariableSetExecute(params, ctx) ==
    LET bad == validate_params("variable_set", params, <<"name", "value">>)
    IN  IF bad # <<>>
        THEN Ret(FALSE, ErrDict(SCat(<<Lit("Blad ustawiania zmiennej: ")>>, bad)), ctx)
        ELSE
        LET name == DGet(params.d, "name", VNone)
            given == DGet(params.d, "value", VNone)
            scope == get_param(params, "scope", VLit("variables"))
            w == GetWalk(ctx, InnerParts(given))
            value == IF StartsEndsAsRef(given) THEN w.v ELSE given
        IN  IF StartsEndsAsRef(given) /\ ~w.ok
            THEN Ret(FALSE, ErrDict(<<Lit("Nie znaleziono zmiennej "
                                          \o JoinPath(InnerParts(given)))>>), ctx)
            ELSE IF ~(scope.t = "str" /\ TextOf(scope.s) \in {"variables", "state", "results"})
            THEN Ret(FALSE, ErrDict(SCat(<<Lit("Nieznany zakres: ")>>, PyStr(scope))), ctx)
            ELSE Ret(TRUE,
                     VDict(<<KV("name", name), KV("value", value), KV("scope", scope)>>),
                     CtxPut(ctx, TextOf(scope.s), KeyOf(name), value))

----------------------------------------------------------------------------
(* Collaborators (movatalk.audio, movatalk.api) and the components that    *)
(* hold them in the context: components.py.  What a collaborator answers   *)
(* is the environment's choice; it is fixed here by the text of the query, *)
(* so that the documents choose among the outcomes.                        *)

CollaboratorSlots ==
    {"tts", "api", "local_llm", "cache", "logger", "parental_control", "content_filter"}

\* context[key] = val
CtxSet(ctx, key, val) == VDict(DSet(ctx.d, key, val))

\* a constructor call: an object that is none of the objects the context holds
NewObject(ctx, class) ==
    LET ids == {ctx.d[i].v.n : i \in {j \in DOMAIN ctx.d : ctx.d[j].v.t = "obj"}}
    IN  VObj(class,
             IF ids = {} THEN 1 ELSE 1 + (CHOOSE m \in ids : \A k \in ids : k <= m),
             <<>>)

\* text.startswith(prefix)
StartsWith(text, prefix) ==
    Len(text) >= Len(prefix) /\ SubSeq(text, 1, Len(prefix)) = prefix

\* a param that starts with "${" and ends with "}" is looked up once more, by
\* the component's own walk from the context's top
ParamWalk(given, ctx) ==
    IF StartsEndsAsRef(given) THEN GetWalk(ctx, InnerParts(given))
    ELSE [ok |-> TRUE, v |-> given]

\* return False, {"error": f"Nie znaleziono zmiennej {var_name}"}
NotFound(given, ctx) ==
    Ret(FALSE, ErrDict(<<Lit("Nie znaleziono zmiennej " \o JoinPath(InnerParts(given)))>>),
        ctx)

\* the except clause of a component's execute
Caught(prefix, msg, ctx) == Ret(FALSE, ErrDict(SCat(<<Lit(prefix)>>, msg)), ctx)

\* PiperTTS.speak / save_to_file: whether the text could be spoken
PiperSpeak(text) == text # VLit("unspeakable")

\* TextToSpeechComponent.execute
TextToSpeechExecute(params, ctx) ==
    LET bad == validate_params("text_to_speech", params, <<"text">>)
        given == DGet(params.d, "text", VNone)
        save_to == get_param(params, "save_to", VNone)
        w == ParamWalk(given, ctx)
        held == CtxSet(ctx, "tts", NewObject(ctx, "PiperTTS"))
    IN  IF bad # <<>> THEN Caught("Blad konwersji tekstu na mowe: ", bad, ctx)
        ELSE IF given.t # "str"
        THEN Caught("Blad konwersji tekstu na mowe: ", <<Lit("no attribute 'startswith'")>>,
                    ctx)
        ELSE IF ~w.ok THEN NotFound(given, ctx)
        ELSE IF Truthy(save_to)
        THEN Ret(PiperSpeak(w.v),
                 IF PiperSpeak(w.v) THEN VDict(<<KV("file_path", save_to)>>)
                 ELSE ErrDict(<<Lit("Nie udalo sie zapisac pliku audio")>>),
                 held)
        ELSE Ret(PiperSpeak(w.v), VDict(<<KV("success", VBool(PiperSpeak(w.v)))>>), held)

\* what the remote model's endpoint does with a query: it answers, the
\* request times out, or the response is not a 200
ApiOutcome(text) ==
    CASE text \in {VLit("q_timeout"), VLit("all_down")} -> "timeout"
      [] text = VLit("q_500") -> "http"
      [] OTHER -> "ok"

\* SafeAPIConnector.query_llm, with a config that holds an API key: the
\* reply, or the text the connector returns for an error.  The connector's
\* own cache of replies only spares a request whose answer would be the same.
ApiQuery(text) ==
    CASE ApiOutcome(text) = "timeout" -> VLit("Blad komunikacji: timed out")
      [] ApiOutcome(text) = "http" -> VLit("Blad API: 500 - ")
      [] OTHER -> VStr(SNorm(<<Lit("reply to ")>> \o PyStr(text)))

\* context["results"][output_var] = response;
\* context["state"]["last_response"] = response
StoreResponse(ctx, output_var, response) ==
    Ret(TRUE, VDict(<<KV("response", response)>>),
        CtxPut(CtxPut(ctx, "results", KeyOf(output_var), response),
               "state", "last_response", response))

\* if use_cache and "cache" not in context: context["cache"] = CacheManager();
\* the cache file is taken to hold no entry
WithCache(ctx, use_cache) ==
    IF Truthy(use_cache) /\ ~DHas(ctx.d, "cache")
    THEN CtxSet(ctx, "cache", NewObject(ctx, "CacheManager"))
    ELSE ctx

\* LLMQueryComponent.execute: with use_cache the call passes cache=..., a
\* keyword that query_llm(text_input, context, use_cache) does not have
LLMQueryExecute(params, ctx) ==
    LET bad == validate_params("llm_query", params, <<"text", "output_var">>)
        given == DGet(params.d, "text", VNone)
        use_cache == get_param(params, "use_cache", VBool(TRUE))
        w == ParamWalk(given, ctx)
        held == WithCache(CtxSet(ctx, "api", NewObject(ctx, "SafeAPIConnector")), use_cache)
    IN  IF bad # <<>> THEN Caught("Blad zapytania do API: ", bad, ctx)
        ELSE IF given.t # "str"
        THEN Caught("Blad zapytania do API: ", <<Lit("no attribute 'startswith'")>>, ctx)
        ELSE IF ~w.ok THEN NotFound(given, ctx)
        ELSE IF Truthy(use_cache)
        THEN Caught("Blad zapytania do API: ",
                    <<Lit("query_llm() got an unexpected keyword argument 'cache'")>>, held)
        ELSE StoreResponse(held, DGet(params.d, "output_var", VNone), ApiQuery(w.v))

\* what the local model does with a query: it answers, the model cannot be
\* pulled, the response is not a 200, or the request fails
OllamaOutcome(text) ==
    CASE text \in {VLit("l_unavailable"), VLit("all_down")} -> "unavailable"
      [] text = VLit("l_500") -> "http"
      [] text = VLit("l_comm") -> "comm"
      [] OTHER -> "ok"

\* LocalLLMConnector.query_ollama: the reply or the text of the error
query_ollama(text) ==
    CASE OllamaOutcome(text) = "unavailable" -> "Blad: Wymagany model nie jest dostepny."
      [] OllamaOutcome(text) = "http" -> "Blad API: 500 - "
      [] OllamaOutcome(text) = "comm" -> "Blad komunikacji z lokalnym modelem: refused"
      [] OTHER -> "local reply"

\* LocalLLMConnector.query_llm with the default config (use_local_first,
\* provider ollama, fallback_to_api)
query_llm(text, api_connector) ==
    IF ~StartsWith(query_ollama(text), "Blad:") THEN VLit(query_ollama(text))
    ELSE IF Truthy(api_connector) THEN ApiQuery(text)
    ELSE VLit(query_ollama(text))

\* LocalLLMQueryComponent.execute, lines 505-541, on the context that holds
\* the new connector
LocalLLMQuery(params, text, held) ==
    LET fallback_to_api == Truthy(get_param(params, "fallback_to_api", VBool(TRUE)))
        with_api == IF fallback_to_api /\ ~Truthy(DGet(held.d, "api", VNone))
                    THEN CtxSet(held, "api", NewObject(held, "SafeAPIConnector"))
                    ELSE held
    IN  StoreResponse(WithCache(with_api, get_param(params, "use_cache", VBool(TRUE))),
                      DGet(params.d, "output_var", VNone),
                      query_llm(text, IF fallback_to_api
                                      THEN DGet(with_api.d, "api", VNone)
                                      ELSE VNone))

\* LocalLLMQueryComponent.execute
LocalLLMExecute(params, ctx) ==
    LET bad == validate_params("local_llm", params, <<"text", "output_var">>)
        given == DGet(params.d, "text", VNone)
        w == ParamWalk(given, ctx)
    IN  IF bad # <<>> THEN Caught("Blad zapytania do lokalnego modelu: ", bad, ctx)
        ELSE IF ~w.ok THEN NotFound(given, ctx)
        ELSE LocalLLMQuery(params, w.v,
                           CtxSet(ctx, "local_llm", NewObject(ctx, "LocalLLMConnector")))

\* CacheComponent.execute, lines 764-807, on the context that holds the cache
CacheAction(action, params, held) ==
    LET cache == DGet(held.d, "cache", VNone)
        key == KeyOf(DGet(params.d, "key", VNone))
        value == DGet(cache.d, key, VNone)
        w == ParamWalk(DGet(params.d, "value", VNone), held)
        prefix == "Blad zarzadzania pamiecia podreczna: "
    IN  CASE action = VLit("get") ->
                 IF validate_params("cache", params, <<"key", "output_var">>) # <<>>
                 THEN Caught(prefix,
                             validate_params("cache", params, <<"key", "output_var">>), held)
                 ELSE Ret(TRUE,
                          VDict(<<KV("value", value), KV("found", VBool(value # VNone))>>),
                          CtxPut(held, "results",
                                 KeyOf(DGet(params.d, "output_var", VNone)), value))
          [] action = VLit("set") ->
                 IF validate_params("cache", params, <<"key", "value">>) # <<>>
                 THEN Caught(prefix, validate_params("cache", params, <<"key", "value">>),
                             held)
                 ELSE IF ~w.ok THEN NotFound(DGet(params.d, "value", VNone), held)
                 ELSE Ret(TRUE,
                          VDict(<<KV("key", DGet(params.d, "key", VNone)), KV("value", w.v)>>),
                          CtxSet(held, "cache", [cache EXCEPT !.d = DSet(@, key, w.v)]))
          [] action = VLit("clear") ->
                 Ret(TRUE, VDict(<<KV("message", VLit("Pamiec podreczna wyczyszczona"))>>),
                     CtxSet(held, "cache", [cache EXCEPT !.d = <<>>]))
          [] OTHER -> Ret(FALSE, ErrDict(SCat(<<Lit("Nieznana akcja: ")>>, PyStr(action))),
                          held)

\* CacheComponent.execute
CacheExecute(params, ctx) ==
    IF validate_params("cache", params, <<"action">>) # <<>>
    THEN Caught("Blad zarzadzania pamiecia podreczna: ",
                validate_params("cache", params, <<"action">>), ctx)
    ELSE CacheAction(DGet(params.d, "action", VNone), params,
                     IF Truthy(DGet(ctx.d, "cache", VNone)) THEN ctx
                     ELSE CtxSet(ctx, "cache", NewObject(ctx, "CacheManager")))

\* the modules that components.py imports, lines 6-12
ModuleNames == {"os", "json", "importlib", "inspect", "pkgutil", "sys"}

\* a use of the name `time` in components.py: NameError unless it is imported
TimeUse(ctx, otherwise) ==
    IF "time" \in ModuleNames THEN otherwise
    ELSE Caught("Blad operacji timera: ", <<Lit("name 'time' is not defined")>>, ctx)

\* TimerComponent.execute; a clock that could be read is taken to read 0
TimerExecute(params, ctx) ==
    LET action == DGet(params.d, "action", VNone)
        timer_name == DGet(params.d, "timer_name", VNone)
        output_var == get_param(params, "output_var", VNone)
        with_timers == IF DHas(ctx.d, "timers") THEN ctx ELSE CtxSet(ctx, "timers", VDict(<<>>))
        needs == CASE action = VLit("sleep") -> <<"duration">>
                   [] action \in {VLit("measure_start"), VLit("measure_end")} -> <<"timer_name">>
                   [] OTHER -> <<>>
        bad == IF validate_params("timer", params, <<"action">>) # <<>>
               THEN validate_params("timer", params, <<"action">>)
               ELSE validate_params("timer", params, needs)
    IN  IF bad # <<>> THEN Caught("Blad operacji timera: ", bad, ctx)
        ELSE CASE action = VLit("sleep") ->
                      TimeUse(ctx, Ret(TRUE, VDict(<<KV("slept_for",
                                                        DGet(params.d, "duration", VNone))>>),
                                       ctx))
               [] action = VLit("measure_start") ->
                      TimeUse(with_timers,
                              Ret(TRUE,
                                  VDict(<<KV("timer_name", timer_name),
                                          KV("started_at", VInt(0))>>),
                                  CtxPut(with_timers, "timers", KeyOf(timer_name), VInt(0))))
               [] action = VLit("measure_end") ->
                      IF ~DHas(DGet(ctx.d, "timers", VDict(<<>>)).d, KeyOf(timer_name))
                      THEN Ret(FALSE,
                               ErrDict(SCat(SCat(<<Lit("Timer ")>>, PyStr(timer_name)),
                                            <<Lit(" nie zostal uruchomiony")>>)),
                               ctx)
                      ELSE TimeUse(ctx,
                                   Ret(TRUE,
                                       VDict(<<KV("timer_name", timer_name),
                                               KV("duration", VInt(0))>>),
                                       IF Truthy(output_var)
                                       THEN CtxPut(ctx, "results", KeyOf(output_var), VInt(0))
                                       ELSE ctx))
               [] OTHER -> Ret(FALSE, ErrDict(SCat(<<Lit("Nieznana akcja: ")>>, PyStr(action))),
                               ctx)

----------------------------------------------------------------------------
(* The registry: components.py, ComponentRegistry.  A registry maps a name  *)
(* to the class of the component registered under it.                      *)

BuiltinComponents ==
    {"audio_record", "speech_to_text", "text_to_speech", "llm_query", "local_llm",
     "parental_control", "content_filter", "cache", "logger", "variable_set",
     "condition", "loop", "timer"}

\* ComponentRegistry(): load_components registers each built-in component
\* under its own name
ComponentRegistry == [name \in BuiltinComponents |-> name]

\* ComponentRegistry.register: self.components[component.name] = component
register(reg, name, component) ==
    [n \in DOMAIN reg \cup {name} |-> IF n = name THEN component ELSE reg[n]]

\* ComponentRegistry.get_component: None for a name that is not registered
get_component(reg, name) == IF name \in DOMAIN reg THEN reg[name] ELSE "None"

\* a component of the caller's own: its result is the params it was given
SpyExecute(params, ctx) == Ret(TRUE, VDict(<<KV("spy", params)>>), ctx)

----------------------------------------------------------------------------
(* The environment of shell and python steps                               *)

\* the exit code of the shell for the command texts the documents use
ShellExitCode(command) ==
    CASE command = "exit 0" -> 0
      [] command = "exit 1" -> 1
      [] OTHER -> 127

\* os.getcwd(), and the directories Popen can change to
Cwd == "/work"
DirExists(dir) == dir \in {"/work", "/tmp"}

\* exec(code, globals(), local_vars) for the code texts the documents use:
\* what `result` is afterwards, or that the code raised
PyExec(code) ==
    CASE code = "result = 1" -> [raised |-> FALSE, result |-> VInt(1), msg |-> ""]
      [] code = "pass" -> [raised |-> FALSE, result |-> VNone, msg |-> ""]
      [] code = "raise ValueError('boom')" ->
            [raised |-> TRUE, result |-> VNone, msg |-> "boom"]
      [] OTHER -> [raised |-> TRUE, result |-> VNone, msg |-> "invalid syntax"]

\* int(x): of an int, or of the decimal text of a small number; -1: ValueError
MaxParsedInt == 9
PyInt(v) ==
    CASE v.t \in {"int", "bool"} -> v.n
      [] v.t = "str" /\ (\E i \in 0..MaxParsedInt : v.s = <<Lit(ToString(i))>>) ->
            CHOOSE i \in 0..MaxParsedInt : v.s = <<Lit(ToString(i))>>
      [] OTHER -> -1

Min(a, b) == IF a <= b THEN a ELSE b

----------------------------------------------------------------------------
(* Step Dispatcher and the nested runs of loop, condition and pipeline     *)
(* steps.  A nested run is a synchronous start() of a fresh engine, so it  *)
(* is computed here as a function of the context it works on.  Where a     *)
(* handler goes on with the outcome of a call, the rest of the handler is  *)
(* an operator of its own that takes the outcome as a parameter.           *)

RECURSIVE execute_step(_, _, _), execute_component_step(_, _, _),
          execute_sub_pipeline_step(_, _, _), ComponentExecute(_, _, _),
          LoopExecute(_, _), LoopCount(_, _, _, _, _), LoopWhile(_, _, _, _, _),
          LoopFor(_, _, _, _, _, _), ConditionExecute(_, _),
          SubEngineStart(_, _, _), RunSteps(_, _, _, _), StepOutcome(_, _, _, _)

\* step.get('name', f"step_{step_index}")
StepName(step, step_index) ==
    IF DHas(step.d, "name") THEN KeyOf(DGet(step.d, "name", VNone))
    ELSE "step_" \o ToString(step_index)

\* _execute_shell_step, from Popen on
ShellRun(step, ctx, command, working_dir) ==
    LET code == ShellExitCode(command)
        result == VDict(<<KV("exit_code", VInt(code)), KV("stdout", VLit("")),
                          KV("stderr", VLit(""))>>)
        error_msg == <<Lit("Blad wykonania komendy shell: No such file or directory")>>
    IN  IF ~DirExists(working_dir)
        THEN Ret(FALSE, ErrDict(error_msg), AppendError(ctx, error_msg))
        ELSE IF code = 0 \/ Truthy(DGet(step.d, "ignore_errors", VBool(FALSE)))
        THEN Ret(TRUE, result, ctx)
        ELSE Ret(FALSE, result, AppendError(ctx, <<Lit("Blad komendy shell: ")>>))

\* _execute_shell_step
execute_shell_step(step, ctx) ==
    IF ~Truthy(DGet(step.d, "command", VNone))
    THEN Raise(<<Lit("Brak komendy dla kroku shell.")>>, ctx)
    ELSE ShellRun(step, ctx,
                  KeyOf(resolve_variables_in_string(ctx, DGet(step.d, "command", VNone))),
                  KeyOf(resolve_variables_in_string(
                            ctx, DGet(step.d, "working_dir", VLit(Cwd)))))

\* _execute_python_step, from exec on
PythonRun(ctx, x) ==
    LET error_msg == <<Lit("Blad wykonania kodu Python: " \o x.msg)>>
    IN  IF x.raised THEN Ret(FALSE, ErrDict(error_msg), AppendError(ctx, error_msg))
        ELSE Ret(TRUE, x.result, ctx)

\* _execute_python_step
execute_python_step(step, ctx) ==
    IF ~Truthy(DGet(step.d, "code", VNone))
    THEN Raise(<<Lit("Brak kodu dla kroku python.")>>, ctx)
    ELSE PythonRun(ctx, PyExec(KeyOf(resolve_variables_in_string(
                                         ctx, DGet(step.d, "code", VNone)))))

\* a loop that decides on the step's success but keeps no result of it
StoreResultDropped(step, step_index, r) ==
    [ok |-> r.ok,
     raised |-> FALSE,
     abort |-> ~r.ok /\ ~Truthy(DGet(step.d, "continue_on_error", VBool(FALSE))),
     ctx |-> r.ctx]

\* a loop that stops at every failed step, whatever its continue_on_error
StoreResultStrict(step, step_index, r) ==
    [ok |-> r.ok,
     raised |-> FALSE,
     abort |-> ~r.ok,
     ctx |-> CtxPut(r.ctx, "results", StepName(step, step_index), r.res)]

\* _execute_pipeline, lines 151-157: store the step's result r under the
\* step's name and decide whether the run goes on
StoreResult(step, step_index, r) ==
    [ok |-> r.ok,
     raised |-> FALSE,
     abort |-> ~r.ok /\ ~Truthy(DGet(step.d, "continue_on_error", VBool(FALSE))),
     ctx |-> CtxPut(r.ctx, "results", StepName(step, step_index), r.res)]

\* _execute_pipeline, lines 145-157, for the step at step_index (from 0):
\* run the step, store its result under its name, decide whether the run
\* goes on.  abort: the run returns False after this step; raised: by the
\* except clause of line 163.
StepOutcome(step, step_index, ctx, reg) ==
    IF step.t # "dict" \/ ~DHas(ctx.d, "results")
    THEN [ok |-> FALSE, raised |-> TRUE, abort |-> TRUE, ctx |-> ctx]
    ELSE StoreResult(step, step_index, execute_step(step, ctx, reg))

\* the for loop of _execute_pipeline after the step at i gave outcome o
RunStepsNext(steps, i, reg, o) ==
    IF o.abort THEN [ok |-> FALSE, ctx |-> o.ctx]
    ELSE RunSteps(steps, i + 1, o.ctx, reg)

\* the for loop of _execute_pipeline in a nested engine, whose own running
\* flag nobody else can reach: from steps[i] to the end
RunSteps(steps, i, ctx, reg) ==
    IF i > Len(steps) THEN [ok |-> TRUE, ctx |-> ctx]
    ELSE RunStepsNext(steps, i, reg, StepOutcome(steps[i], i - 1, ctx, reg))

\* iterating 'steps': a list gives its steps; a non-empty str or dict gives
\* items without .get, anything else is not iterable (both end in the
\* except clause of line 163)
IterSteps(steps, ctx, reg) ==
    CASE steps.t = "list" -> RunSteps(steps.l, 1, ctx, reg)
      [] steps.t \in {"str", "dict"} -> [ok |-> ~Truthy(steps), ctx |-> ctx]
      [] OTHER -> [ok |-> FALSE, ctx |-> ctx]

\* load_pipeline(pipeline) on a fresh engine, its context replaced by ctx,
\* then start(): False at line 134 for a falsy pipeline
SubEngineStart(pipeline, ctx, reg) ==
    IF ~Truthy(pipeline) THEN [ok |-> FALSE, ctx |-> ctx]
    ELSE IterSteps(DGet(pipeline.d, "steps", VList(<<>>)), ctx, reg)

\* the except clause of _execute_step
CatchStepError(r) ==
    IF r.raised
    THEN Ret(FALSE, ErrDict(SCat(<<Lit("Blad wykonania kroku: ")>>, r.msg)),
             AppendError(r.ctx, SCat(<<Lit("Blad wykonania kroku: ")>>, r.msg)))
    ELSE r

\* _execute_step, lines 189-199
DispatchStep(step_type, step, ctx, reg) ==
    CASE step_type = VLit("component") -> execute_component_step(step, ctx, reg)
      [] step_type = VLit("shell") -> execute_shell_step(step, ctx)
      [] step_type = VLit("python") -> execute_python_step(step, ctx)
      [] step_type = VLit("pipeline") -> execute_sub_pipeline_step(step, ctx, reg)
      [] OTHER -> Raise(SCat(<<Lit("Nieznany typ kroku: ")>>, PyStr(step_type)), ctx)

\* _execute_step
execute_step(step, ctx, reg) ==
    CatchStepError(
        IF ~Truthy(DGet(step.d, "type", VNone))
        THEN Raise(<<Lit("Brak typu dla kroku.")>>, ctx)
        ELSE IF ~evaluate_condition(DGet(step.d, "if", VNone), ctx)
        THEN Ret(TRUE, VNone, ctx)
        ELSE DispatchStep(DGet(step.d, "type", VNone), step, ctx, reg))

\* _execute_component_step
execute_component_step(step, ctx, reg) ==
    IF ~Truthy(DGet(step.d, "component", VNone))
    THEN Raise(<<Lit("Brak nazwy komponentu dla kroku.")>>, ctx)
    ELSE IF get_component(reg, KeyOf(DGet(step.d, "component", VNone))) = "None"
    THEN Raise(SCat(<<Lit("Nieznany komponent: ")>>,
                    PyStr(DGet(step.d, "component", VNone))), ctx)
    ELSE ComponentExecute(get_component(reg, KeyOf(DGet(step.d, "component", VNone))),
                          resolve_variables(ctx, DGet(step.d, "params", VDict(<<>>))),
                          ctx)

\* component.execute(resolved_params, self.pipeline_context)
ComponentExecute(component, params, ctx) ==
    CASE component = "variable_set" -> VariableSetExecute(params, ctx)
      [] component = "loop" -> LoopExecute(params, ctx)
      [] component = "condition" -> ConditionExecute(params, ctx)
      [] component = "text_to_speech" -> TextToSpeechExecute(params, ctx)
      [] component = "llm_query" -> LLMQueryExecute(params, ctx)
      [] component = "local_llm" -> LocalLLMExecute(params, ctx)
      [] component = "cache" -> CacheExecute(params, ctx)
      [] component = "timer" -> TimerExecute(params, ctx)
      [] component = "SpyComponent" -> SpyExecute(params, ctx)

----------------------------------------------------------------------------
(* LoopComponent.execute: components.py                                    *)

\* self.get_param(params, "max_iterations", 100)
DefaultMaxIterations == 100

\* a str iterated character by character
Chars(text) == [i \in 1..Len(text) |-> VLit(SubSeq(text, i, i))]

\* context["variables"][name] = val before an iteration
SetLoopVar(ctx, name, val) == CtxPut(ctx, "variables", name, val)

\* what the iterations hand back: whether an iteration's run failed, whether
\* the loop's own code raised, and the iterations completed
Iterated(failed, raised, done, ctx) ==
    [failed |-> failed, raised |-> raised, done |-> done, ctx |-> ctx]

\* a count loop that goes on after an iteration whose run failed
LoopCountNextOn(i, limit, iterations_done, sub_pipeline, run) ==
    LoopCount(i + 1, limit, i + 1, sub_pipeline, run.ctx)

\* count loop, after the run of iteration i
LoopCountNext(i, limit, iterations_done, sub_pipeline, run) ==
    IF ~run.ok THEN Iterated(TRUE, FALSE, iterations_done, run.ctx)
    ELSE LoopCount(i + 1, limit, i + 1, sub_pipeline, run.ctx)

\* for i in range(limit), from iteration i on
LoopCount(i, limit, iterations_done, sub_pipeline, ctx) ==
    IF i >= limit THEN Iterated(FALSE, FALSE, iterations_done, ctx)
    ELSE LoopCountNext(i, limit, iterations_done, sub_pipeline,
                       SubEngineStart(sub_pipeline,
                                      SetLoopVar(ctx, "loop_index", VInt(i)),
                                      ComponentRegistry))

\* while loop, after the run of an iteration
LoopWhileNext(condition, max_iterations, iterations_done, sub_pipeline, run) ==
    IF ~run.ok THEN Iterated(TRUE, FALSE, iterations_done, run.ctx)
    ELSE LoopWhile(condition, max_iterations, iterations_done + 1, sub_pipeline, run.ctx)

\* while loop, with the condition evaluated to e
LoopWhileTest(e, condition, max_iterations, iterations_done, sub_pipeline, ctx) ==
    IF e.raised THEN Iterated(FALSE, TRUE, iterations_done, ctx)
    ELSE IF ~(Truthy(e.v) /\ iterations_done < max_iterations)
    THEN Iterated(FALSE, FALSE, iterations_done, ctx)
    ELSE LoopWhileNext(condition, max_iterations, iterations_done, sub_pipeline,
                       SubEngineStart(sub_pipeline,
                                      SetLoopVar(ctx, "loop_index", VInt(iterations_done)),
                                      ComponentRegistry))

\* while eval(condition, ...) and iterations_done < max_iterations; the
\* condition text was resolved once, with the other params, before the loop
LoopWhile(condition, max_iterations, iterations_done, sub_pipeline, ctx) ==
    LoopWhileTest(PyEval(KeyOf(condition), ctx, ComponentNames), condition, max_iterations,
                  iterations_done, sub_pipeline, ctx)

\* for loop, after the run of item i
LoopForNext(i, items, item_var, iterations_done, sub_pipeline, run) ==
    IF ~run.ok THEN Iterated(TRUE, FALSE, iterations_done, run.ctx)
    ELSE LoopFor(i + 1, items, item_var, i, sub_pipeline, run.ctx)

\* for i, item in enumerate(collection[:max_iterations]), from item i (from 1)
LoopFor(i, items, item_var, iterations_done, sub_pipeline, ctx) ==
    IF i > Len(items) THEN Iterated(FALSE, FALSE, iterations_done, ctx)
    ELSE LoopForNext(i, items, item_var, iterations_done, sub_pipeline,
                     SubEngineStart(sub_pipeline,
                                    SetLoopVar(SetLoopVar(ctx, item_var, items[i]),
                                               "loop_index", VInt(i - 1)),
                                    ComponentRegistry))

LoopError(msg, ctx) ==
    Ret(FALSE, ErrDict(SCat(<<Lit("Blad wykonania petli: ")>>, msg)), ctx)

\* the returns of LoopComponent.execute after the iterations; the final
\* iterations_done >= max_iterations raises for a max_iterations of None
LoopResult(r, max_iterations) ==
    IF r.raised THEN LoopError(<<Lit("eval")>>, r.ctx)
    ELSE IF r.failed
    THEN Ret(FALSE,
             VDict(<<KV("error", VLit("Blad wykonania krokow petli")),
                     KV("iterations_done", VInt(r.done))>>),
             r.ctx)
    ELSE IF max_iterations.t \notin {"int", "bool"}
    THEN LoopError(<<Lit("'>=' not supported")>>, r.ctx)
    ELSE Ret(TRUE,
             VDict(<<KV("iterations_done", VInt(r.done)),
                     KV("max_reached", VBool(r.done >= max_iterations.n))>>),
             r.ctx)

\* the items a for loop goes through: the slice collection[:max_iterations],
\* which is the whole collection for None and counts a negative
\* max_iterations from the end
ForItems(collection, max_iterations) ==
    LET all == IF collection.t = "list" THEN collection.l ELSE Chars(KeyOf(collection))
    IN  IF max_iterations.t = "none" THEN all
        ELSE IF max_iterations.n < 0
        THEN SubSeq(all, 1, IF Len(all) + max_iterations.n > 0
                            THEN Len(all) + max_iterations.n ELSE 0)
        ELSE SubSeq(all, 1, Min(Len(all), max_iterations.n))

\* the for branch, with the collection param as given
LoopForBranch(params, ctx, sub_pipeline, max_given, given, w) ==
    IF StartsEndsAsRef(given) /\ ~w.ok
    THEN Ret(FALSE, ErrDict(<<Lit("Nie znaleziono zmiennej "
                                  \o JoinPath(InnerParts(given)))>>), ctx)
    ELSE IF (IF StartsEndsAsRef(given) THEN w.v ELSE given).t \in {"int", "bool", "none"}
    THEN Ret(FALSE, ErrDict(<<Lit("Kolekcja nie jest iterowalna")>>), ctx)
    ELSE IF (IF StartsEndsAsRef(given) THEN w.v ELSE given).t = "dict"
            \/ max_given.t \notin {"int", "bool", "none"}
    THEN LoopError(<<Lit("unhashable type: 'slice'")>>, ctx)
    ELSE LoopResult(LoopFor(1,
                            ForItems(IF StartsEndsAsRef(given) THEN w.v ELSE given,
                                     max_given),
                            KeyOf(DGet(params.d, "item_var", VNone)),
                            0, sub_pipeline, ctx),
                    max_given)

\* LoopComponent.execute, after validate_params(params, ["type", "steps"])
LoopByType(loop_type, params, ctx, sub_pipeline, max_given) ==
    IF loop_type = VLit("count") THEN
        IF validate_params("loop", params, <<"iterations">>) # <<>>
        THEN LoopError(validate_params("loop", params, <<"iterations">>), ctx)
        ELSE IF PyInt(DGet(params.d, "iterations", VNone)) < 0
                \/ max_given.t \notin {"int", "bool"}
        THEN LoopError(<<Lit("invalid literal for int()")>>, ctx)
        ELSE LoopResult(LoopCount(0, Min(PyInt(DGet(params.d, "iterations", VNone)),
                                         max_given.n),
                                  0, sub_pipeline, ctx),
                        max_given)
    ELSE IF loop_type = VLit("while") THEN
        IF validate_params("loop", params, <<"condition">>) # <<>>
        THEN LoopError(validate_params("loop", params, <<"condition">>), ctx)
        ELSE IF max_given.t \notin {"int", "bool"}
        THEN LoopError(<<Lit("'<' not supported")>>, ctx)
        ELSE LoopResult(LoopWhile(DGet(params.d, "condition", VNone), max_given.n, 0,
                                  sub_pipeline, ctx),
                        max_given)
    ELSE IF loop_type = VLit("for") THEN
        IF validate_params("loop", params, <<"collection", "item_var">>) # <<>>
        THEN LoopError(validate_params("loop", params, <<"collection", "item_var">>), ctx)
        ELSE LoopForBranch(params, ctx, sub_pipeline, max_given,
                           DGet(params.d, "collection", VNone),
                           GetWalk(ctx, IF StartsEndsAsRef(DGet(params.d, "collection", VNone))
                                        THEN InnerParts(DGet(params.d, "collection", VNone))
                                        ELSE <<>>))
    ELSE Ret(FALSE, ErrDict(SCat(<<Lit("Nieznany typ petli: ")>>, PyStr(loop_type))), ctx)

LoopExecute(params, ctx) ==
    IF validate_params("loop", params, <<"type", "steps">>) # <<>>
    THEN LoopError(validate_params("loop", params, <<"type", "steps">>), ctx)
    ELSE LoopByType(DGet(params.d, "type", VNone), params, ctx,
                    VDict(<<KV("steps", DGet(params.d, "steps", VNone))>>),
                    get_param(params, "max_iterations", VInt(DefaultMaxIterations)))

----------------------------------------------------------------------------
(* ConditionComponent.execute: components.py                               *)

\* a condition step that succeeds only when its branch did
ConditionResultOfBranch(output_var, condition_result, branch) ==
    Ret(branch.ok, VDict(<<KV("condition_result", VBool(condition_result))>>),
        IF Truthy(output_var)
        THEN CtxPut(branch.ctx, "results", KeyOf(output_var), VBool(condition_result))
        ELSE branch.ctx)

\* lines 1026-1033, after the chosen branch ran
ConditionResult(output_var, condition_result, branch) ==
    Ret(TRUE, VDict(<<KV("condition_result", VBool(condition_result))>>),
        IF Truthy(output_var)
        THEN CtxPut(branch.ctx, "results", KeyOf(output_var), VBool(condition_result))
        ELSE branch.ctx)

\* a choice that never looks at the condition's value
ChosenBranchTrue(condition_result, true_pipeline, false_pipeline) ==
    IF Truthy(true_pipeline) THEN VDict(<<KV("steps", true_pipeline)>>) ELSE VNone

\* lines 1001-1024: the branch to run, VNone standing for none
ChosenBranch(condition_result, true_pipeline, false_pipeline) ==
    IF condition_result /\ Truthy(true_pipeline) THEN VDict(<<KV("steps", true_pipeline)>>)
    ELSE IF ~condition_result /\ Truthy(false_pipeline)
    THEN VDict(<<KV("steps", false_pipeline)>>)
    ELSE VNone

\* ConditionComponent.execute with the condition evaluated to e
ConditionBranch(e, params, ctx) ==
    IF e.raised THEN Ret(FALSE, ErrDict(<<Lit("Blad oceny warunku: eval")>>), ctx)
    ELSE ConditionResult(
             get_param(params, "output_var", VNone),
             Truthy(e.v),
             IF ChosenBranch(Truthy(e.v), get_param(params, "true_pipeline", VList(<<>>)),
                             get_param(params, "false_pipeline", VList(<<>>))) = VNone
             THEN [ok |-> TRUE, ctx |-> ctx]
             ELSE SubEngineStart(
                      ChosenBranch(Truthy(e.v),
                                   get_param(params, "true_pipeline", VList(<<>>)),
                                   get_param(params, "false_pipeline", VList(<<>>))),
                      ctx, ComponentRegistry))

ConditionExecute(params, ctx) ==
    IF validate_params("condition", params, <<"condition">>) # <<>>
    THEN Ret(FALSE, ErrDict(SCat(<<Lit("Blad oceny warunku: ")>>,
                                 validate_params("condition", params, <<"condition">>))),
             ctx)
    ELSE ConditionBranch(IF DGet(params.d, "condition", VNone).t = "str"
                         THEN PyEval(KeyOf(DGet(params.d, "condition", VNone)), ctx, ComponentNames)
                         ELSE [raised |-> TRUE, v |-> VNone],
                         params, ctx)

----------------------------------------------------------------------------
(* Sub-pipeline steps: engine.py, _execute_sub_pipeline_step, and          *)
(* parser.py, YamlParser.parse_file                                        *)

\* a context as load_pipeline builds it
FreshContext(variables) ==
    VDict(<<KV("variables", variables), KV("state", VDict(<<>>)),
            KV("results", VDict(<<>>)), KV("errors", VList(<<>>))>>)

\* the pipeline files on disk, by path: the parsed YAML, VNone when the file
\* does not exist or cannot be parsed
SubOkFile ==
    VDict(<<KV("steps", VList(<<
        VDict(<<KV("name", VLit("sub_b")), KV("type", VLit("component")),
                KV("component", VLit("variable_set")),
                KV("params", VDict(<<KV("name", VLit("b")), KV("value", VInt(2))>>))>>),
        VDict(<<KV("name", VLit("sub_a")), KV("type", VLit("component")),
                KV("component", VLit("variable_set")),
                KV("params", VDict(<<KV("name", VLit("a")), KV("value", VInt(9))>>))>>)
        >>))>>)
SubFailFile ==
    VDict(<<KV("steps", VList(<<
        VDict(<<KV("name", VLit("sub_x")), KV("type", VLit("shell")),
                KV("command", VLit("exit 1"))>>)>>))>>)
SubEchoFile ==
    VDict(<<KV("variables", VDict(<<KV("z", VInt(0)), KV("a", VInt(5))>>)),
            KV("steps", VList(<<
        VDict(<<KV("name", VLit("sub_seen")), KV("type", VLit("component")),
                KV("component", VLit("variable_set")),
                KV("params", VDict(<<KV("name", VLit("seen")),
                                     KV("value", VRef(<<"variables">>)),
                                     KV("scope", VLit("results"))>>))>>)>>))>>)
Files(path) ==
    CASE path = "sub_ok.yaml" -> SubOkFile
      [] path = "sub_fail.yaml" -> SubFailFile
      [] path = "sub_echo.yaml" -> SubEchoFile
      [] path = "sub_spy.yaml" ->
             VDict(<<KV("steps", VList(<<
                 VDict(<<KV("name", VLit("P1")), KV("type", VLit("component")),
                         KV("component", VLit("spy")), KV("params", VDict(<<>>))>>),
                 VDict(<<KV("name", VLit("P2")), KV("type", VLit("component")),
                         KV("component", VLit("variable_set")),
                         KV("params", VDict(<<KV("name", VLit("q")),
                                              KV("value", VInt(1))>>))>>)>>))>>)
      [] path = "list.yaml" -> VList(<<VInt(1), VInt(2)>>)
      [] path = "no_steps.yaml" -> VDict(<<KV("variables", VDict(<<>>))>>)
      [] OTHER -> VNone

\* YamlParser._validate_config: the top level is a mapping with 'steps'
validate_config(config) == config.t = "dict" /\ DHas(config.d, "steps")

\* PipelineEngine.load_pipeline_from_file, as used on a fresh engine
load_pipeline_from_file(path) ==
    IF Files(path) = VNone \/ ~validate_config(Files(path))
    THEN [ok |-> FALSE, ctx |-> VDict(<<>>), pipeline |-> VNone]
    ELSE [ok |-> TRUE,
          ctx |-> FreshContext(DGet(Files(path).d, "variables", VDict(<<>>))),
          pipeline |-> Files(path)]

\* an export that copies every variable of the sub-run
RECURSIVE ExportVariablesAll(_, _)
ExportVariablesAll(ctx, items) ==
    IF items = <<>> THEN ctx
    ELSE ExportVariablesAll(CtxPut(ctx, "variables", items[1].k, items[1].v), Tail(items))

\* the export loop: keys of the sub-run's variables absent in the parent's
RECURSIVE ExportVariables(_, _)
ExportVariables(ctx, items) ==
    IF items = <<>> THEN ctx
    ELSE ExportVariables(
             IF DHas(DGet(ctx.d, "variables", VDict(<<>>)).d, items[1].k) THEN ctx
             ELSE CtxPut(ctx, "variables", items[1].k, items[1].v),
             Tail(items))

\* a pipeline step that succeeds whatever its sub-run returned
SubPipelineResultOk(step, ctx, run) ==
    Ret(TRUE,
        VDict(<<KV("results", DGet(run.ctx.d, "results", VNone)),
                KV("errors", DGet(run.ctx.d, "errors", VNone))>>),
        ctx)

\* _execute_sub_pipeline_step, lines 354-366, after the sub-run
SubPipelineResult(step, ctx, run) ==
    Ret(run.ok,
        VDict(<<KV("results", DGet(run.ctx.d, "results", VNone)),
                KV("errors", DGet(run.ctx.d, "errors", VNone))>>),
        IF Truthy(DGet(step.d, "export_variables", VBool(FALSE)))
        THEN ExportVariables(ctx, DGet(run.ctx.d, "variables", VDict(<<>>)).d)
        ELSE ctx)

\* _execute_sub_pipeline_step, lines 343-370, for the resolved path
SubPipelineLoad(step, ctx, reg, pipeline_path, loaded) ==
    IF loaded.ok
    THEN SubPipelineResult(
             step, ctx,
             SubEngineStart(
                 loaded.pipeline,
                 VDict(DSet(loaded.ctx.d, "variables",
                            VDict(DMerge(DGet(ctx.d, "variables", VDict(<<>>)).d,
                                         DGet(step.d, "variables", VDict(<<>>)).d)))),
                 reg))
    ELSE Ret(FALSE,
             ErrDict(SCat(<<Lit("Nie udalo sie wczytac pod-pipeline'a: ")>>,
                          PyStr(pipeline_path))),
             AppendError(ctx, SCat(<<Lit("Nie udalo sie wczytac pod-pipeline'a: ")>>,
                                   PyStr(pipeline_path))))

\* _execute_sub_pipeline_step, with the path resolved
SubPipelineAt(step, ctx, reg, pipeline_path) ==
    SubPipelineLoad(step, ctx, reg, pipeline_path,
                    load_pipeline_from_file(KeyOf(pipeline_path)))

execute_sub_pipeline_step(step, ctx, reg) ==
    IF ~Truthy(DGet(step.d, "path", VNone))
    THEN Raise(<<Lit("Brak sciezki do pipeline'a dla kroku.")>>, ctx)
    ELSE SubPipelineAt(step, ctx, reg,
                       resolve_variables_in_string(ctx, DGet(step.d, "path", VNone)))

----------------------------------------------------------------------------
(* The documents the caller loads                                          *)

MaxCalls == 4         \* API calls (load_pipeline, start, stop) in one behaviour
MaxRuns == 2          \* activations of _execute_pipeline in one behaviour
MaxIterations == 2    \* the largest `iterations` of a loop document

RunIds == 1..MaxRuns

VariableSetStep(step_name, name, value) ==
    VDict(<<KV("name", VLit(step_name)), KV("type", VLit("component")),
            KV("component", VLit("variable_set")),
            KV("params", VDict(<<KV("name", VLit(name)), KV("value", value)>>))>>)

WithKey(step, key, val) == VDict(DSet(step.d, key, val))

\* failures that the run survives (a shell command, a failing sub-pipeline)
\* around a step whose guard is false
ContinueDoc ==
    VDict(<<KV("steps", VList(<<
        VDict(<<KV("name", VLit("S1")), KV("type", VLit("shell")),
                KV("command", VLit("exit 1")), KV("continue_on_error", VBool(TRUE))>>),
        WithKey(VariableSetStep("G", "a", VInt(1)), "if", VLit("1 == 2")),
        VDict(<<KV("name", VLit("P")), KV("type", VLit("pipeline")),
                KV("path", VLit("sub_fail.yaml")), KV("continue_on_error", VBool(TRUE))>>)
        >>))>>)

\* a component that reports failure, without continue_on_error
AbortDoc ==
    VDict(<<KV("steps", VList(<<
        VDict(<<KV("name", VLit("B")), KV("type", VLit("component")),
                KV("component", VLit("variable_set")),
                KV("params", VDict(<<KV("name", VLit("b")), KV("value", VInt(1)),
                                     KV("scope", VLit("bogus"))>>))>>),
        VariableSetStep("S3", "never", VInt(1))
        >>))>>)

\* declared variables, a write and a read of it by the next step
VarsDoc ==
    VDict(<<KV("variables", VDict(<<KV("a", VInt(1))>>)),
            KV("steps", VList(<<
                VariableSetStep("set_a", "a", VInt(2)),
                VariableSetStep("set_msg", "msg",
                                VStr(<<Ref(<<"variables", "a">>), Lit("!")>>))
                >>))>>)

\* a count loop of n iterations over three variable_set steps
LoopDoc(n) ==
    VDict(<<KV("steps", VList(<<
        VDict(<<KV("name", VLit("L")), KV("type", VLit("component")),
                KV("component", VLit("loop")),
                KV("params", VDict(<<
                    KV("type", VLit("count")), KV("iterations", VInt(n)),
                    KV("steps", VList(<<
                        VariableSetStep("set_x", "x", VRef(<<"variables", "loop_index">>)),
                        VariableSetStep("set_w", "w", VLit("v")),
                        VariableSetStep("set_y", "y", VRef(<<"variables", "w">>))
                        >>))>>))>>)
        >>))>>)

LoopDocId(n) == "loop" \o ToString(n)
LoopDocIds == {LoopDocId(n) : n \in 1..MaxIterations}
DocIds == {"continue", "abort", "vars"} \cup LoopDocIds

\* the documents as the caller wrote them
Documents ==
    [id \in DocIds |->
        CASE id = "continue" -> ContinueDoc
          [] id = "abort" -> AbortDoc
          [] id = "vars" -> VarsDoc
          [] OTHER -> LoopDoc(CHOOSE n \in 1..MaxIterations : LoopDocId(n) = id)]

----------------------------------------------------------------------------
(* LoRaConnector.__init__: kidsvoiceai/hardware/lora.py                    *)

MaxMessages == 3      \* send_message calls in one behaviour

\* the threads that call send_message
SendCallers == {"a", "b"}

\* a message: the text given to send_message, and which call gave it
Message(id, text) == [id |-> id, text |-> text]
NoMessage == Message(0, "")

\* the connector: is_connected is set by _initialize_lora, which also starts
\* the sender thread; without the SX127x library or with the config not
\* enabled nothing is initialised
LoRaConnector(initialised) ==
    [is_connected |-> initialised,
     message_queue |-> <<>>,
     message_lock |-> "free",
     sending_active |-> initialised,
     sender |-> [pc |-> IF initialised THEN "loop" ELSE "none",
                 message_to_send |-> NoMessage],
     callers |-> [c \in SendCallers |-> [pc |-> "idle", message |-> NoMessage]],
     cleanup |-> "none",
     radio |-> <<>>,
     accepted |-> <<>>,
     calls |-> <<>>,
     ncalls |-> 0]

\* no connector was constructed
NoLoRa == LoRaConnector(FALSE)

----------------------------------------------------------------------------
(* The engine: PipelineEngine.__init__                                     *)

NoRun == [phase |-> "none", doc |-> "None", idx |-> 0, iter |-> 0, mode |-> "none",
          ret |-> "None", line |-> 0]

\* nothing was given yet
NoProbe == [op |-> "none"]

Init ==
    /\ probe = NoProbe
    /\ registry = ComponentRegistry
    /\ lora = NoLoRa
    /\ docs = Documents
    /\ current_pipeline = "None"
    /\ pipeline_context = VDict(<<>>)
    /\ ctx_alias = "None"
    /\ running = FALSE
    /\ execution_thread = 0
    /\ runs = [r \in RunIds |-> NoRun]
    /\ nruns = 0
    /\ caller = [pc |-> "idle", run |-> 0, calls |-> 0]
    /\ last_call = [op |-> "init", arg |-> "", ret |-> "None"]
    /\ hist = [log |-> [r \in RunIds |-> <<>>],
               stopped |-> [r \in RunIds |-> FALSE],
               restart |-> [r \in RunIds |-> FALSE],
               stop_idx |-> [r \in RunIds |-> 0],
               late |-> [r \in RunIds |-> 0],
               nfailed |-> 0,
               fresh |-> FALSE,
               terminated |-> FALSE]

\* threading.Thread.is_alive() of the thread of run r
is_alive(r) == runs[r].phase \in {"entry", "head", "step"}

\* the context's 'variables' dict is the loaded document's own dict object:
\* what a step writes there, the caller's document holds too
SharedDocs(ctx) ==
    IF ctx_alias = "None" THEN docs
    ELSE [docs EXCEPT ![ctx_alias] =
              VDict(DSet(@.d, "variables", DGet(ctx.d, "variables", VNone)))]

----------------------------------------------------------------------------
(* PipelineEngine.load_pipeline                                            *)

\* the caller is free to make one more API call
CanCall == caller.pc = "idle" /\ caller.calls < MaxCalls
Called == [caller EXCEPT !.calls = @ + 1]

\* what load_pipeline leaves behind for the document object `config`: on a
\* config without .get the exception comes after current_pipeline is set
load_pipeline(config) ==
    IF config.t = "dict"
    THEN [ok |-> TRUE,
          ctx |-> FreshContext(DGet(config.d, "variables", VDict(<<>>))),
          shares |-> DHas(config.d, "variables")]
    ELSE [ok |-> FALSE, ctx |-> pipeline_context, shares |-> FALSE]

LoadPipeline(d) ==
    /\ UNCHANGED <<probe, registry, lora>>
    /\ CanCall
    /\ caller' = Called
    /\ LET r == load_pipeline(docs[d])
       IN  /\ current_pipeline' = IF docs[d] = VNone THEN "None" ELSE d
           /\ pipeline_context' = r.ctx
           /\ ctx_alias' = IF r.ok THEN (IF r.shares THEN d ELSE "None") ELSE ctx_alias
           /\ last_call' = [op |-> "load", arg |-> d,
                            ret |-> IF r.ok THEN "True" ELSE "False"]
           /\ hist' = [hist EXCEPT !.fresh = r.ok, !.nfailed = 0, !.terminated = FALSE]
    /\ UNCHANGED <<docs, running, execution_thread, runs, nruns>>

----------------------------------------------------------------------------
(* PipelineEngine.start                                                    *)

\* a start() that only looks for a loaded pipeline
StartRejectedUnloaded == current_pipeline = "None"

\* the two early returns of start()
StartRejected == current_pipeline = "None" \/ running

Start(async_mode) ==
    /\ UNCHANGED <<probe, registry, lora>>
    /\ CanCall
    /\ IF StartRejected
       THEN /\ last_call' = [op |-> "start", arg |-> IF async_mode THEN "async" ELSE "sync",
                             ret |-> "False"]
            /\ caller' = Called
            /\ UNCHANGED <<docs, current_pipeline, pipeline_context, ctx_alias, running,
                           execution_thread, runs, nruns, hist>>
       ELSE /\ nruns < MaxRuns
            /\ running' = TRUE
            /\ nruns' = nruns + 1
            /\ runs' = [runs EXCEPT ![nruns + 1] =
                           [NoRun EXCEPT !.phase = "entry",
                                         !.mode = IF async_mode THEN "async" ELSE "sync"]]
            /\ hist' = [hist EXCEPT !.restart[nruns + 1] = hist.terminated]
            /\ IF async_mode
               THEN /\ execution_thread' = nruns + 1
                    /\ last_call' = [op |-> "start", arg |-> "async", ret |-> "Thread"]
                    /\ caller' = Called
               ELSE /\ caller' = [pc |-> "sync", run |-> nruns + 1,
                                    calls |-> caller.calls + 1]
                    /\ UNCHANGED <<execution_thread, last_call>>
            /\ UNCHANGED <<docs, current_pipeline, pipeline_context, ctx_alias>>

----------------------------------------------------------------------------
(* PipelineEngine.stop                                                     *)

Stop ==
    /\ UNCHANGED <<probe, registry, lora>>
    /\ CanCall
    /\ IF ~running
       THEN /\ last_call' = [op |-> "stop", arg |-> "", ret |-> "False"]
            /\ caller' = Called
            /\ UNCHANGED <<running, hist>>
       ELSE /\ running' = FALSE
            /\ hist' = [hist EXCEPT
                           !.stopped = [r \in RunIds |-> hist.stopped[r] \/ is_alive(r)],
                           !.stop_idx = [r \in RunIds |->
                                            IF runs[r].phase = "step" THEN runs[r].idx
                                            ELSE hist.stop_idx[r]]]
            /\ IF execution_thread # 0 /\ is_alive(execution_thread)
               THEN /\ caller' = [pc |-> "joining", run |-> execution_thread,
                                    calls |-> caller.calls + 1]
                    /\ UNCHANGED last_call
               ELSE /\ last_call' = [op |-> "stop", arg |-> "", ret |-> "True"]
                    /\ caller' = Called
    /\ UNCHANGED <<docs, current_pipeline, pipeline_context, ctx_alias,
                   execution_thread, runs, nruns>>

\* execution_thread.join(timeout=2.0) returns because the thread ended
JoinFinished ==
    /\ UNCHANGED <<probe, registry, lora>>
    /\ caller.pc = "joining"
    /\ ~is_alive(caller.run)
    /\ caller' = [caller EXCEPT !.pc = "idle", !.run = 0]
    /\ last_call' = [op |-> "stop", arg |-> "", ret |-> "True"]
    /\ UNCHANGED <<docs, current_pipeline, pipeline_context, ctx_alias, running,
                   execution_thread, runs, nruns, hist>>

\* ... or because the two seconds passed while the thread was still alive
JoinTimeout ==
    /\ UNCHANGED <<probe, registry, lora>>
    /\ caller.pc = "joining"
    /\ is_alive(caller.run)
    /\ caller' = [caller EXCEPT !.pc = "idle", !.run = 0]
    /\ last_call' = [op |-> "stop", arg |-> "", ret |-> "True"]
    /\ UNCHANGED <<docs, current_pipeline, pipeline_context, ctx_alias, running,
                   execution_thread, runs, nruns, hist>>

----------------------------------------------------------------------------
(* PipelineEngine._execute_pipeline, on the caller (sync) or on the        *)
(* execution thread (async).  One activation r goes through:               *)
(*   entry : line 133, the check before the try                            *)
(*   head  : lines 140-143, the head of the for loop with its check of     *)
(*           self.running, and lines 159-161 when the steps are exhausted  *)
(*   step  : lines 145-157, a step in progress; a loop step goes through   *)
(*           its iterations, then the step completes in one move           *)

StepsOf(d) == DGet(docs[d].d, "steps", VList(<<>>))

\* is the guard of this step false (line 185 reached and not passed)?
GuardFalse(step, ctx) ==
    /\ step.t = "dict"
    /\ Truthy(DGet(step.d, "type", VNone))
    /\ ~evaluate_condition(DGet(step.d, "if", VNone), ctx)

\* `return ret` at `line`; a synchronous start() returns it to the caller
Return(r, ret, line) ==
    /\ runs' = [runs EXCEPT ![r] = [@ EXCEPT !.phase = "done", !.ret = ret, !.line = line]]
    /\ IF runs[r].mode = "sync"
       THEN /\ caller' = [caller EXCEPT !.pc = "idle", !.run = 0]
            /\ last_call' = [op |-> "start", arg |-> "sync", ret |-> ret]
       ELSE UNCHANGED <<caller, last_call>>

Entry(r) ==
    /\ UNCHANGED <<probe, registry, lora>>
    /\ runs[r].phase = "entry"
    /\ IF ~Truthy(docs[current_pipeline]) \/ ~running
       THEN /\ Return(r, "False", 134)
            /\ hist' = [hist EXCEPT !.terminated = TRUE]
            /\ UNCHANGED running
       ELSE IF docs[current_pipeline].t # "dict"
               \/ StepsOf(current_pipeline).t \notin {"list", "str", "dict"}
               \/ (StepsOf(current_pipeline).t \in {"str", "dict"}
                   /\ Truthy(StepsOf(current_pipeline)))
       THEN /\ Return(r, "False", 166)
            /\ running' = FALSE
            /\ hist' = [hist EXCEPT !.terminated = TRUE]
       ELSE /\ runs' = [runs EXCEPT ![r] =
                           [@ EXCEPT !.phase = "head", !.doc = current_pipeline, !.idx = 1]]
            /\ UNCHANGED <<running, caller, last_call, hist>>
    /\ UNCHANGED <<docs, current_pipeline, pipeline_context, ctx_alias,
                   execution_thread, nruns>>

LoopHead(r) ==
    /\ UNCHANGED <<probe, registry, lora>>
    /\ runs[r].phase = "head"
    /\ IF runs[r].idx > Len(StepsOf(runs[r].doc).l)
       THEN /\ running' = FALSE
            /\ Return(r, "True", 161)
            /\ hist' = [hist EXCEPT !.terminated = TRUE]
       ELSE IF ~running
       THEN /\ Return(r, "False", 143)
            /\ hist' = [hist EXCEPT !.terminated = TRUE]
            /\ UNCHANGED running
       ELSE /\ runs' = [runs EXCEPT ![r].phase = "step"]
            /\ UNCHANGED <<running, caller, last_call, hist>>
    /\ UNCHANGED <<docs, current_pipeline, pipeline_context, ctx_alias,
                   execution_thread, nruns>>

\* the iterations a loop step has gone through when it returns result res:
\* those it counts as done and the one whose run failed
IterationsStarted(res) ==
    IF res.t = "dict" /\ DHas(res.d, "iterations_done")
    THEN DGet(res.d, "iterations_done", VNone).n + (IF DHas(res.d, "error") THEN 1 ELSE 0)
    ELSE 0

\* the result that the step stores in the context it leaves
StoredResult(step, step_index, o) ==
    DGet(DGet(o.ctx.d, "results", VDict(<<>>)).d, StepName(step, step_index), VNone)

\* how many times the step, if it is a loop component, starts its sub-engine
\* (components.py, lines 1101, 1132, 1180) on the context as it is
LoopIterations(step, step_index, ctx) ==
    IF step.t = "dict" /\ DGet(step.d, "component", VNone) = VLit("loop")
    THEN IterationsStarted(StoredResult(step, step_index,
                                        StepOutcome(step, step_index, ctx,
                                                    registry)))
    ELSE 0

\* the loop step in progress in run r starts its next iteration: the loop
\* reads no field of the engine that runs it
Iterate(r) ==
    /\ UNCHANGED <<probe, registry, lora>>
    /\ runs[r].phase = "step"
    /\ runs[r].iter < LoopIterations(StepsOf(runs[r].doc).l[runs[r].idx], runs[r].idx - 1,
                                     pipeline_context)
    /\ runs' = [runs EXCEPT ![r].iter = @ + 1]
    /\ hist' = [hist EXCEPT !.late[r] = IF hist.stop_idx[r] = runs[r].idx THEN @ + 1 ELSE @]
    /\ UNCHANGED <<docs, current_pipeline, pipeline_context, ctx_alias, running,
                   execution_thread, nruns, caller, last_call>>

\* lines 151-157 on the execution thread of run r, for outcome o of its step
Completed(r, step, o) ==
    /\ pipeline_context' = o.ctx
    /\ docs' = SharedDocs(o.ctx)
    /\ IF o.abort
       THEN /\ running' = FALSE
            /\ Return(r, "False", IF o.raised THEN 166 ELSE 157)
       ELSE /\ runs' = [runs EXCEPT ![r] = [@ EXCEPT !.phase = "head", !.idx = @ + 1,
                                                       !.iter = 0]]
            /\ UNCHANGED <<running, caller, last_call>>
    /\ hist' = [hist EXCEPT
                   !.log[r] = Append(@, [name |-> StepName(step, runs[r].idx - 1),
                                         idx |-> runs[r].idx,
                                         ok |-> o.ok,
                                         skipped |-> GuardFalse(step, pipeline_context),
                                         coe |-> Truthy(DGet(step.d, "continue_on_error",
                                                             VBool(FALSE))),
                                         after_stop |-> hist.stopped[r]]),
                   !.nfailed = IF o.ok THEN @ ELSE @ + 1,
                   !.fresh = FALSE,
                   !.terminated = @ \/ o.abort]

Complete(r) ==
    /\ UNCHANGED <<probe, registry, lora>>
    /\ runs[r].phase = "step"
    /\ runs[r].iter >= LoopIterations(StepsOf(runs[r].doc).l[runs[r].idx], runs[r].idx - 1,
                                      pipeline_context)
    /\ Completed(r, StepsOf(runs[r].doc).l[runs[r].idx],
                 StepOutcome(StepsOf(runs[r].doc).l[runs[r].idx], runs[r].idx - 1,
                             pipeline_context, registry))
    /\ UNCHANGED <<current_pipeline, ctx_alias, execution_thread, nruns>>

----------------------------------------------------------------------------

Next ==
    \/ \E d \in DocIds : LoadPipeline(d)
    \/ \E async_mode \in BOOLEAN : Start(async_mode)
    \/ Stop
    \/ JoinFinished
    \/ JoinTimeout
    \/ \E r \in RunIds : Entry(r)
    \/ \E r \in RunIds : LoopHead(r)
    \/ \E r \in RunIds : Iterate(r)
    \/ \E r \in RunIds : Complete(r)

Spec == Init /\ [][Next]_vars

----------------------------------------------------------------------------
(* Single steps: a document of one step, loaded and started synchronously  *)
(* on a context with some variables declared; and single strings given to  *)
(* the resolver on such a context.                                         *)

\* the variables the document declares
InitialVariables ==
    {VDict(<<>>),
     VDict(<<KV("a", VInt(1))>>),
     VDict(<<KV("a", VInt(1)), KV("c", VInt(3)),
             KV("d", VDict(<<KV("k", VLit("v"))>>))>>)}

\* optional keys of a step or of its params: none, or one of the choices
WithOptional(d, key, choices) ==
    {d} \cup {VDict(DSet(d.d, key, val)) : val \in choices}

\* loop steps over a one-step body, of every type
LoopStepOf(params) ==
    VDict(<<KV("name", VLit("L")), KV("type", VLit("component")),
            KV("component", VLit("loop")), KV("params", params)>>)
LoopBody == VList(<<VariableSetStep("set_w", "w", VLit("v"))>>)
Collection(n) == VList([i \in 1..n |-> VInt(i)])
MaxChoices == {VInt(m) : m \in -1..MaxIterations} \cup {VNone}
LoopParams ==
    {VDict(<<KV("type", VLit("while")), KV("condition", VLit("True")),
             KV("steps", LoopBody), KV("max_iterations", m)>>) : m \in MaxChoices}
    \cup
    UNION {WithOptional(params, "max_iterations", MaxChoices) :
           params \in
               {VDict(<<KV("type", VLit("count")), KV("iterations", VInt(n)),
                        KV("steps", LoopBody)>>) : n \in 0..(MaxIterations + 1)}
               \cup {VDict(<<KV("type", VLit("for")), KV("collection", Collection(n)),
                             KV("item_var", VLit("it")), KV("steps", LoopBody)>>) :
                     n \in 0..(MaxIterations + 1)}
               \cup {VDict(<<KV("type", VLit("while")), KV("condition", VLit(e)),
                             KV("steps", LoopBody)>>) : e \in {"1 == 2"}}}
LoopSteps == {LoopStepOf(params) : params \in LoopParams}

\* pipeline steps: the file, the step's own variables, export, continuation
PipelineSteps ==
    UNION {WithOptional(st, "continue_on_error", {VBool(TRUE)}) :
           st \in UNION {WithOptional(st2, "export_variables", {VBool(TRUE), VBool(FALSE)}) :
                         st2 \in UNION {WithOptional(
                                            VDict(<<KV("name", VLit("P")),
                                                    KV("type", VLit("pipeline")),
                                                    KV("path", VLit(path))>>),
                                            "variables",
                                            {VDict(<<KV("a", VInt(7)), KV("e", VInt(8))>>)}) :
                                        path \in {"sub_ok.yaml", "sub_fail.yaml",
                                                  "sub_echo.yaml", "nosuch.yaml"}}}}

\* guarded steps
GuardedSteps ==
    {WithKey(VariableSetStep("G", "g", VInt(1)), "if", VLit(e)) :
     e \in {"undefined_name", "1 == 2", "True", "variables['a'] == 1"}}

StepInputs == LoopSteps \cup PipelineSteps \cup GuardedSteps

\* strings of up to two atoms: literal text and references that hit or miss
TextAtoms ==
    {Lit("x"), Lit("-"),
     Ref(<<"variables", "a">>), Ref(<<"variables", "d", "k">>), Ref(<<"variables", "d">>),
     Ref(<<"variables", "nosuch">>), Ref(<<"nosuch">>), Ref(<<"variables", "a", "b">>),
     Ref(<<"errors", "x">>), Ref(<<"nosuch", "variables">>),
     Ref(<<"variables", "a", "results">>)}
Texts ==
    {VStr(SNorm(<<a>>)) : a \in TextAtoms}
    \cup {VStr(SNorm(<<a, b>>)) : a \in TextAtoms, b \in TextAtoms}

StepInit ==
    /\ probe = NoProbe
    /\ registry = ComponentRegistry
    /\ lora = NoLoRa
    /\ docs = Documents
    /\ current_pipeline = "None"
    /\ pipeline_context \in {FreshContext(v) : v \in InitialVariables}
    /\ ctx_alias = "None"
    /\ running = FALSE
    /\ execution_thread = 0
    /\ runs = [r \in RunIds |-> NoRun]
    /\ nruns = 0
    /\ caller = [pc |-> "idle", run |-> 0, calls |-> 0]
    /\ last_call = [op |-> "init", arg |-> "", ret |-> "None"]
    /\ hist = [log |-> [r \in RunIds |-> <<>>],
               stopped |-> [r \in RunIds |-> FALSE],
               restart |-> [r \in RunIds |-> FALSE],
               stop_idx |-> [r \in RunIds |-> 0],
               late |-> [r \in RunIds |-> 0],
               nfailed |-> 0,
               fresh |-> FALSE,
               terminated |-> FALSE]

\* _execute_pipeline, lines 145-157, left with outcome o for the one step
RanOneStep(step, o) ==
    /\ pipeline_context' = o.ctx
    /\ probe' = [op |-> "step", arg |-> step, before |-> pipeline_context,
                 ok |-> o.ok, abort |-> o.abort,
                 res |-> StoredResult(step, 0, o)]

\* start() of the one-step document, synchronously
RunOneStep(step) ==
    /\ probe = NoProbe
    /\ RanOneStep(step, StepOutcome(step, 0, pipeline_context, registry))
    /\ UNCHANGED <<docs, current_pipeline, ctx_alias, running, execution_thread,
                   runs, nruns, caller, last_call, hist, registry, lora>>

\* _resolve_variables_in_string(text) on the engine's context
ResolveString(text) ==
    /\ probe = NoProbe
    /\ probe' = [op |-> "resolve", arg |-> text, before |-> pipeline_context,
                 out |-> resolve_variables_in_string(pipeline_context, text)]
    /\ UNCHANGED <<docs, current_pipeline, pipeline_context, ctx_alias, running,
                   execution_thread, runs, nruns, caller, last_call, hist, registry, lora>>

StepNext ==
    \/ \E step \in StepInputs : RunOneStep(step)
    \/ \E text \in Texts : ResolveString(text)

StepSpec == StepInit /\ [][StepNext]_vars

----------------------------------------------------------------------------
(* Whole runs: a document loaded on a new engine and started               *)
(* synchronously; nobody else calls the engine.  The run goes through      *)
(* _execute_pipeline as in Spec; each completed step is recorded with the  *)
(* context before it, the context as the step's handler left it, and what  *)
(* the handler returned.  A loop step completes in one move.                *)

ComponentStep(step_name, component, params) ==
    VDict(<<KV("name", VLit(step_name)), KV("type", VLit("component")),
            KV("component", VLit(component)), KV("params", params)>>)

\* a document with these declared variables and steps
Document(variables, steps) ==
    VDict(<<KV("variables", variables), KV("steps", VList(steps))>>)

WithScope(step, scope) ==
    WithKey(step, "params", VDict(DSet(DGet(step.d, "params", VNone).d, "scope", scope)))

\* steps that need a collaborator, named step_name
CollaboratorSteps(step_name) ==
    {WithKey(st, "continue_on_error", VBool(TRUE)) :
     st \in {ComponentStep(step_name, "text_to_speech", VDict(<<KV("text", VLit("hello"))>>)),
             ComponentStep(step_name, "llm_query",
                           VDict(<<KV("text", VLit("q")), KV("output_var", VLit("o"))>>)),
             ComponentStep(step_name, "llm_query",
                           VDict(<<KV("text", VLit("q")), KV("output_var", VLit("o")),
                                   KV("use_cache", VBool(FALSE))>>)),
             ComponentStep(step_name, "local_llm",
                           VDict(<<KV("text", VLit("q")), KV("output_var", VLit("o"))>>)),
             ComponentStep(step_name, "local_llm",
                           VDict(<<KV("text", VLit("q")), KV("output_var", VLit("o")),
                                   KV("fallback_to_api", VBool(FALSE)),
                                   KV("use_cache", VBool(FALSE))>>)),
             ComponentStep(step_name, "cache",
                           VDict(<<KV("action", VLit("set")), KV("key", VLit("k")),
                                   KV("value", VLit("v"))>>)),
             ComponentStep(step_name, "cache", VDict(<<KV("action", VLit("clear"))>>))}}

\* queries to the remote and to the local model, for each of their outcomes
LLMSteps ==
    UNION {WithOptional(st, "continue_on_error", {VBool(TRUE)}) :
           st \in {ComponentStep("Q", "llm_query", params) :
                   params \in UNION {WithOptional(
                                         VDict(<<KV("text", VLit(q)),
                                                 KV("output_var", VLit("o"))>>),
                                         "use_cache", {VBool(FALSE)}) :
                                     q \in {"q_ok", "q_timeout", "q_500"}}}
                  \cup
                  {ComponentStep("Q", "local_llm", params) :
                   params \in UNION {WithOptional(
                                         VDict(<<KV("text", VLit(q)),
                                                 KV("output_var", VLit("o"))>>),
                                         "fallback_to_api", {VBool(TRUE), VBool(FALSE)}) :
                                     q \in {"l_ok", "l_unavailable", "l_500", "l_comm",
                                            "all_down"}}}}

\* condition steps named K, with and without branches and output_var
BranchTrue ==
    VList(<<VariableSetStep("T", "t", VInt(1)),
            WithScope(VariableSetStep("T2", "st", VInt(2)), VLit("state")),
            WithScope(VariableSetStep("T3", "rs", VInt(3)), VLit("results"))>>)
BranchFalse == VList(<<VariableSetStep("F", "f", VInt(1))>>)
ConditionSteps ==
    {ComponentStep("K", "condition", params) :
     params \in UNION {WithOptional(p3, "output_var", {VLit("o"), VLit("K")}) :
                       p3 \in UNION {WithOptional(p2, "false_pipeline",
                                                  {VList(<<>>), BranchFalse}) :
                                     p2 \in UNION {WithOptional(
                                                       VDict(<<KV("condition", VLit(e))>>),
                                                       "true_pipeline",
                                                       {VList(<<>>), BranchTrue}) :
                                                   e \in {"True", "1 == 2",
                                                          "undefined_name"}}}}}

\* variable_set steps named S: values with and without references, scopes
SetSteps ==
    UNION {WithOptional(VariableSetStep("S", "msg", value), "params",
                        {VDict(<<KV("name", VLit("msg")), KV("value", value),
                                 KV("scope", scope)>>) :
                         scope \in {VLit("variables"), VLit("state"), VLit("results"),
                                    VLit("timers"), VInt(3)}}) :
           value \in {VStr(<<Ref(<<"variables", "greeting">>), Lit(", world")>>),
                      VRef(<<"variables", "greeting">>), VRef(<<"variables", "v">>),
                      VRef(<<"variables", "nosuch">>), VLit("plain"), VInt(5)}}

\* component steps named M that lack a required param
MissingSteps ==
    UNION {WithOptional(ComponentStep("M", component, params), "continue_on_error",
                        {VBool(TRUE)}) :
           component \in {"variable_set", "condition", "loop", "timer", "cache",
                          "llm_query", "local_llm", "text_to_speech"},
           params \in {VDict(<<>>), VDict(<<KV("name", VLit("a"))>>),
                       VDict(<<KV("value", VInt(1))>>),
                       VDict(<<KV("type", VLit("count")), KV("steps", LoopBody)>>),
                       VDict(<<KV("type", VLit("for")), KV("steps", LoopBody),
                               KV("item_var", VLit("it"))>>),
                       VDict(<<KV("type", VLit("while")), KV("steps", LoopBody)>>),
                       VDict(<<KV("action", VLit("measure_start"))>>),
                       VDict(<<KV("action", VLit("measure_end"))>>),
                       VDict(<<KV("action", VLit("sleep"))>>),
                       VDict(<<KV("action", VLit("get")), KV("key", VLit("k"))>>),
                       VDict(<<KV("action", VLit("set")), KV("key", VLit("k"))>>),
                       VDict(<<KV("text", VLit("q"))>>),
                       VDict(<<KV("output_var", VLit("o"))>>)}}

\* timer steps
TimerStep(step_name, action, timer_name) ==
    WithKey(ComponentStep(step_name, "timer",
                          VDict(<<KV("action", VLit(action)),
                                  KV("timer_name", VLit(timer_name))>>)),
            "continue_on_error", VBool(TRUE))
TimerEndSteps ==
    UNION {WithOptional(TimerStep("E", "measure_end", timer_name), "params",
                        {VDict(<<KV("action", VLit("measure_end")),
                                 KV("timer_name", VLit(timer_name)),
                                 KV("output_var", VLit("d"))>>)}) :
           timer_name \in {"t", "u"}}

\* steps that write a key of results themselves
CacheGetStep(step_name, output_var) ==
    ComponentStep(step_name, "cache",
                  VDict(<<KV("action", VLit("get")), KV("key", VLit("k")),
                          KV("output_var", VLit(output_var))>>))
WritingSteps(step_name) ==
    {CacheGetStep(step_name, output_var) : output_var \in {step_name, "o"}}
    \cup {WithScope(VariableSetStep(step_name, name, VInt(5)), VLit("results")) :
          name \in {step_name, "o"}}
    \cup {ComponentStep(step_name, "llm_query",
                        VDict(<<KV("text", VLit("q")), KV("output_var", VLit(output_var)),
                                KV("use_cache", VBool(FALSE))>>)) :
          output_var \in {step_name, "o"}}

\* a step guarded by an expression over one root
RootGuards ==
    {"state['x'] == 1", "context['state']['x'] == 1", "variables['x'] == 1",
     "results['x'] == 1", "errors == []"}
RootGuardedSteps ==
    {WithKey(VariableSetStep("G", "g", VInt(1)), "if", VLit(e)) : e \in RootGuards}

\* a step that shows what it sees: the text of results, variables and state
AfterStep ==
    VariableSetStep("after", "seen",
                    VStr(<<Ref(<<"results">>), Lit("|"), Ref(<<"variables">>), Lit("|"),
                           Ref(<<"state">>)>>))

RunDocuments ==
    {Document(VDict(<<>>), <<a, b>>) :
         a \in CollaboratorSteps("c1"), b \in CollaboratorSteps("c2")}
    \cup {Document(VDict(<<>>), <<q, AfterStep>>) : q \in LLMSteps}
    \cup {Document(VDict(<<KV("a", VInt(1))>>), <<k, AfterStep>>) : k \in ConditionSteps}
    \cup {Document(VDict(<<KV("greeting", VLit("Hi")),
                           KV("v", VRef(<<"state", "secret">>))>>),
                   <<WithScope(VariableSetStep("secret", "secret", secret), VLit("state")),
                     st>>) :
          secret \in {VInt(41), VInt(42)}, st \in SetSteps}
    \cup {Document(VDict(<<KV("a", VInt(1))>>),
                   <<WithScope(VariableSetStep("p", "b", VInt(2)), VLit("state")), m>>) :
          m \in MissingSteps}
    \cup {Document(VDict(<<>>), <<TimerStep("B", "measure_start", "t"), e>>) :
          e \in TimerEndSteps}
    \cup {Document(VDict(<<>>), <<e>>) : e \in TimerEndSteps}
    \cup {Document(VDict(<<>>), <<a, b>>) : a \in WritingSteps("w1"), b \in WritingSteps("w2")}
    \cup {Document(VDict(<<>>),
                   <<WithScope(VariableSetStep("x", "x", VInt(n)), VLit(scope)), g>>) :
          n \in {1, 2}, scope \in {"variables", "state", "results"}, g \in RootGuardedSteps}

\* a registry in which the caller registered a component of its own under a
\* new name and under the name of a built-in one
SpyRegistry ==
    register(register(ComponentRegistry, "spy", "SpyComponent"), "timer", "SpyComponent")

\* a step of the caller's component named Y, given the variable x in a
\* string, in a list and beside a number
SpyValues ==
    {VInt(5), VBool(TRUE), VNone, VList(<<VInt(1), VInt(2)>>),
     VDict(<<KV("a", VInt(1))>>), VLit("txt")}
SpyStep ==
    ComponentStep("Y", "spy",
                  VDict(<<KV("p", VRef(<<"variables", "x">>)),
                          KV("l", VList(<<VRef(<<"variables", "x">>)>>)),
                          KV("n", VInt(5))>>))

\* loops named L of three iterations whose body fails in the iteration the
\* guard names, or in none
FailingBody(guard) ==
    VList(<<VariableSetStep("b", "last", VInt(1)),
            WithKey(WithScope(VariableSetStep("bad", "z", VInt(1)), VLit("nosuch")),
                    "if", VLit(guard))>>)
FailGuards ==
    {"variables['loop_index'] == 0", "variables['loop_index'] == 1",
     "variables['loop_index'] == 2", "1 == 2"}
FailingLoops ==
    UNION {WithOptional(ComponentStep("L", "loop", params), "continue_on_error",
                        {VBool(TRUE)}) :
           params \in UNION {{VDict(<<KV("type", VLit("count")), KV("iterations", VInt(3)),
                                      KV("steps", FailingBody(g))>>),
                              VDict(<<KV("type", VLit("while")), KV("condition", VLit("True")),
                                      KV("max_iterations", VInt(3)),
                                      KV("steps", FailingBody(g))>>),
                              VDict(<<KV("type", VLit("for")),
                                      KV("collection",
                                         VList(<<VLit("u"), VLit("v"), VLit("w")>>)),
                                      KV("item_var", VLit("it")),
                                      KV("steps", FailingBody(g))>>)} : g \in FailGuards}}

\* for loops named F over a collection given as a reference
ItemLists == {VList(<<VInt(1), VInt(2)>>), VList(<<VInt(7), VInt(8), VInt(9)>>), VList(<<>>)}
ForRefSteps ==
    {ComponentStep("F", "loop", params) :
     params \in WithOptional(VDict(<<KV("type", VLit("for")),
                                     KV("collection", VRef(<<"variables", "items">>)),
                                     KV("item_var", VLit("it")),
                                     KV("steps", VList(<<VariableSetStep("b", "last",
                                                                         VInt(1))>>))>>),
                             "max_iterations", {VInt(1), VInt(2)})}

\* condition steps named J over the variable x, whose branches hold a step
\* that fails
FailingStep == WithScope(VariableSetStep("B", "z", VInt(1)), VLit("nosuch"))
FailingBranchSteps ==
    {ComponentStep("J", "condition", params) :
     params \in WithOptional(
                    VDict(<<KV("condition", VLit("variables['x'] == 1")),
                            KV("true_pipeline",
                               VList(<<VariableSetStep("T", "t", VInt(1)), FailingStep,
                                       VariableSetStep("T3", "t3", VInt(3))>>)),
                            KV("false_pipeline",
                               VList(<<FailingStep, VariableSetStep("F", "f", VInt(1))>>))>>),
                    "output_var", {VLit("o")})}

\* steps named N that hold a nested step n1 of a registered component: in a
\* loop body, in a condition branch; and a pipeline step of a file that
\* holds one
NestedStep(component) ==
    ComponentStep("n1", component,
                  VDict(<<KV("action", VLit("measure_start")), KV("timer_name", VLit("t"))>>))
NestingSteps ==
    UNION {{ComponentStep("N", "loop",
                          VDict(<<KV("type", VLit("count")), KV("iterations", VInt(1)),
                                  KV("steps", VList(<<NestedStep(component)>>))>>)),
            ComponentStep("N", "condition",
                          VDict(<<KV("condition", VLit("variables['x'] == 1")),
                                  KV("true_pipeline", VList(<<NestedStep(component)>>))>>)),
            NestedStep(component)} : component \in {"spy", "timer"}}
    \cup {VDict(<<KV("name", VLit("N")), KV("type", VLit("pipeline")),
                  KV("path", VLit("sub_spy.yaml"))>>)}

\* a step named state, a step named a, and a step of the caller's component
\* whose params name them
RootsStep ==
    ComponentStep("Y", "spy",
                  VDict(<<KV("r1", VRef(<<"results", "state">>)),
                          KV("r2", VRef(<<"results", "state", "value">>)),
                          KV("r3", VRef(<<"results", "a", "value">>)),
                          KV("r4", VRef(<<"variables", "results">>)),
                          KV("r5", VRef(<<"results", "a", "state">>))>>))
RootsDocuments ==
    {Document(VDict(<<>>),
              <<WithScope(VariableSetStep("sec", "secret", secret), VLit("state")),
                VariableSetStep("state", "name", VLit("n")),
                VariableSetStep("a", "m", VInt(7)),
                RootsStep>>) : secret \in {VInt(41), VInt(42)}}

\* a document and the registry of the engine it is loaded on
RunInput(document, reg) == [document |-> document, registry |-> reg]
RunInputs ==
    {RunInput(document, ComponentRegistry) : document \in RunDocuments}
    \cup {RunInput(Document(VDict(<<>>), <<l, AfterStep>>), ComponentRegistry) :
          l \in FailingLoops}
    \cup {RunInput(Document(VDict(<<KV("items", items)>>), <<f>>), ComponentRegistry) :
          items \in ItemLists, f \in ForRefSteps}
    \cup {RunInput(Document(VDict(<<KV("x", VInt(n))>>), <<j, AfterStep>>),
                   ComponentRegistry) : n \in {1, 2}, j \in FailingBranchSteps}
    \cup {RunInput(Document(VDict(<<KV("x", x)>>), <<SpyStep>>), SpyRegistry) :
          x \in SpyValues}
    \cup {RunInput(Document(VDict(<<KV("x", VInt(1))>>), <<n, AfterStep>>), SpyRegistry) :
          n \in NestingSteps}
    \cup {RunInput(document, SpyRegistry) : document \in RootsDocuments}

NoStep == [op |-> "run", idx |-> 0]

\* load_pipeline(document) returned True and start() has set self.running
RunInit ==
    /\ \E input \in RunInputs :
           /\ docs = [id \in {"run"} |-> input.document]
           /\ registry = input.registry
           /\ pipeline_context =
                  FreshContext(DGet(input.document.d, "variables", VDict(<<>>)))
    /\ probe = NoStep
    /\ lora = NoLoRa
    /\ current_pipeline = "run"
    /\ ctx_alias = "run"
    /\ running = TRUE
    /\ execution_thread = 0
    /\ runs = [r \in RunIds |->
                  IF r = 1 THEN [NoRun EXCEPT !.phase = "entry", !.mode = "sync"] ELSE NoRun]
    /\ nruns = 1
    /\ caller = [pc |-> "sync", run |-> 1, calls |-> 2]
    /\ last_call = [op |-> "load", arg |-> "run", ret |-> "True"]
    /\ hist = [log |-> [r \in RunIds |-> <<>>],
               stopped |-> [r \in RunIds |-> FALSE],
               restart |-> [r \in RunIds |-> FALSE],
               stop_idx |-> [r \in RunIds |-> 0],
               late |-> [r \in RunIds |-> 0],
               nfailed |-> 0,
               fresh |-> TRUE,
               terminated |-> FALSE]

\* lines 149-157 on the thread of run r, for what _execute_step returned
Dispatched(r, step, ret) ==
    /\ probe' = [op |-> "run", idx |-> runs[r].idx, step |-> step,
                 name |-> StepName(step, runs[r].idx - 1),
                 before |-> pipeline_context, left |-> ret.ctx,
                 ok |-> ret.ok, res |-> ret.res]
    /\ Completed(r, step, StoreResult(step, runs[r].idx - 1, ret))

\* the step in progress in run r completes
DispatchStepOf(r) ==
    /\ runs[r].phase = "step"
    /\ Dispatched(r, StepsOf(runs[r].doc).l[runs[r].idx],
                  execute_step(StepsOf(runs[r].doc).l[runs[r].idx], pipeline_context,
                               registry))
    /\ UNCHANGED <<current_pipeline, ctx_alias, execution_thread, nruns, registry, lora>>

RunNext ==
    \/ \E r \in RunIds : Entry(r)
    \/ \E r \in RunIds : LoopHead(r)
    \/ \E r \in RunIds : DispatchStepOf(r)

RunSpec == RunInit /\ [][RunNext]_vars

----------------------------------------------------------------------------
(* Loading: the caller loads documents and files on one engine and starts  *)
(* it synchronously, in any order.                                         *)

\* what the caller may hand to load_pipeline: documents with and without
\* steps, the empty document, and values that are not mappings
LoadableValues ==
    [id \in {"one", "no_steps", "empty", "list", "empty_list", "text", "none"} |->
        CASE id = "one" -> Document(VDict(<<KV("a", VInt(1))>>),
                                    <<VariableSetStep("S", "x", VInt(1))>>)
          [] id = "no_steps" -> Document(VDict(<<>>), <<>>)
          [] id = "empty" -> VDict(<<>>)
          [] id = "list" -> VList(<<VInt(1)>>)
          [] id = "empty_list" -> VList(<<>>)
          [] id = "text" -> VLit("txt")
          [] OTHER -> VNone]

\* the paths the caller may hand to load_pipeline_from_file: files that
\* parse to a pipeline, to a list, to a mapping without steps, a file that
\* does not parse and one that does not exist
LoadablePaths == {"sub_ok.yaml", "sub_echo.yaml", "list.yaml", "no_steps.yaml",
                  "bad.yaml", "nosuch.yaml"}

\* PipelineEngine.load_pipeline_from_file: parse_file raises for a missing
\* or unparsable file and for a config that does not validate, before
\* load_pipeline is called
LoadPipelineFromFile(path) ==
    /\ UNCHANGED <<probe, registry, lora>>
    /\ CanCall
    /\ caller' = Called
    /\ LET r == load_pipeline_from_file(path)
       IN  IF r.ok
           THEN /\ docs' = [id \in DOMAIN docs \cup {path} |->
                               IF id = path THEN r.pipeline ELSE docs[id]]
                /\ current_pipeline' = path
                /\ pipeline_context' = r.ctx
                /\ ctx_alias' = IF DHas(r.pipeline.d, "variables") THEN path ELSE "None"
                /\ last_call' = [op |-> "load_file", arg |-> path, ret |-> "True"]
                /\ hist' = [hist EXCEPT !.fresh = TRUE, !.nfailed = 0,
                                        !.terminated = FALSE]
           ELSE /\ last_call' = [op |-> "load_file", arg |-> path, ret |-> "False"]
                /\ UNCHANGED <<docs, current_pipeline, pipeline_context, ctx_alias, hist>>
    /\ UNCHANGED <<running, execution_thread, runs, nruns>>

LoadInit ==
    /\ probe = NoProbe
    /\ registry = ComponentRegistry
    /\ lora = NoLoRa
    /\ docs = LoadableValues
    /\ current_pipeline = "None"
    /\ pipeline_context = VDict(<<>>)
    /\ ctx_alias = "None"
    /\ running = FALSE
    /\ execution_thread = 0
    /\ runs = [r \in RunIds |-> NoRun]
    /\ nruns = 0
    /\ caller = [pc |-> "idle", run |-> 0, calls |-> 0]
    /\ last_call = [op |-> "init", arg |-> "", ret |-> "None"]
    /\ hist = [log |-> [r \in RunIds |-> <<>>],
               stopped |-> [r \in RunIds |-> FALSE],
               restart |-> [r \in RunIds |-> FALSE],
               stop_idx |-> [r \in RunIds |-> 0],
               late |-> [r \in RunIds |-> 0],
               nfailed |-> 0,
               fresh |-> FALSE,
               terminated |-> FALSE]

LoadNext ==
    \/ \E d \in DOMAIN LoadableValues : LoadPipeline(d)
    \/ \E path \in LoadablePaths : LoadPipelineFromFile(path)
    \/ Start(FALSE)
    \/ \E r \in RunIds : Entry(r)
    \/ \E r \in RunIds : LoopHead(r)
    \/ \E r \in RunIds : DispatchStepOf(r)

LoadSpec == LoadInit /\ [][LoadNext]_vars

----------------------------------------------------------------------------
(* The LoRa send queue: send_message on the callers' threads, the sender   *)
(* thread _message_sender, and cleanup.  The connector keeps, beside the   *)
(* program's fields, what was handed to the radio (radio), the messages in *)
(* the order they were appended to the queue (accepted) and what each      *)
(* send_message call saw and returned (calls).                             *)

\* the texts given to send_message
MessageTexts == {"m", ""}

\* the engine is not touched by the connector
EngineVars == <<probe, registry, docs, current_pipeline, pipeline_context, ctx_alias,
                running, execution_thread, runs, nruns, caller, last_call, hist>>

\* a queue that is read but never shortened
QueueAfterPeek(queue) == queue

\* self.message_queue.pop(0): what is left of the queue
QueueAfterPop(queue) == Tail(queue)

\* send_message, line 225: the check of is_connected; the call is given the
\* next message id
SendMessage(c, text) ==
    /\ lora.callers[c].pc = "idle"
    /\ lora.ncalls < MaxMessages
    /\ IF ~lora.is_connected
       THEN lora' = [lora EXCEPT
                        !.ncalls = @ + 1,
                        !.calls = Append(@, [id |-> lora.ncalls + 1, connected |-> FALSE,
                                             ret |-> FALSE])]
       ELSE lora' = [lora EXCEPT
                        !.ncalls = @ + 1,
                        !.callers[c] = [pc |-> "lock",
                                        message |-> Message(lora.ncalls + 1, text)]]
    /\ UNCHANGED EngineVars

\* send_message, line 230: the lock is taken
SendAcquire(c) ==
    /\ lora.callers[c].pc = "lock"
    /\ lora.message_lock = "free"
    /\ lora' = [lora EXCEPT !.message_lock = c, !.callers[c].pc = "locked"]
    /\ UNCHANGED EngineVars

\* send_message, lines 231-232: append, release the lock, return True
SendAppend(c) ==
    /\ lora.callers[c].pc = "locked"
    /\ lora' = [lora EXCEPT
                    !.message_queue = Append(@, lora.callers[c].message),
                    !.accepted = Append(@, lora.callers[c].message),
                    !.message_lock = "free",
                    !.calls = Append(@, [id |-> lora.callers[c].message.id,
                                         connected |-> TRUE, ret |-> TRUE]),
                    !.callers[c] = [pc |-> "idle", message |-> NoMessage]]
    /\ UNCHANGED EngineVars

\* _message_sender, lines 175-177: the loop's test and message_to_send = None
SenderLoop ==
    /\ lora.sender.pc = "loop"
    /\ lora' = [lora EXCEPT
                    !.sender = IF lora.sending_active
                               THEN [pc |-> "lock", message_to_send |-> NoMessage]
                               ELSE [pc |-> "exit", message_to_send |-> NoMessage]]
    /\ UNCHANGED EngineVars

\* _message_sender, line 178: the lock is taken
SenderAcquire ==
    /\ lora.sender.pc = "lock"
    /\ lora.message_lock = "free"
    /\ lora' = [lora EXCEPT !.message_lock = "sender", !.sender.pc = "locked"]
    /\ UNCHANGED EngineVars

\* _message_sender, lines 179-180: the first message is taken off the queue
\* and the lock is released
SenderTake ==
    /\ lora.sender.pc = "locked"
    /\ lora' = [lora EXCEPT
                    !.sender = [pc |-> "send",
                                message_to_send |-> IF lora.message_queue # <<>>
                                                    THEN Head(lora.message_queue)
                                                    ELSE NoMessage],
                    !.message_queue = IF @ # <<>> THEN QueueAfterPop(@) ELSE @,
                    !.message_lock = "free"]
    /\ UNCHANGED EngineVars

\* _message_sender, lines 183-187, and _send_message_internal: a message
\* that is not empty is written to the device when the connector is
\* connected and the device takes it (works); then the thread sleeps
SenderSend(works) ==
    /\ lora.sender.pc = "send"
    /\ lora' = [lora EXCEPT
                    !.radio = IF lora.sender.message_to_send.text # ""
                                 /\ lora.is_connected /\ works
                              THEN Append(@, lora.sender.message_to_send)
                              ELSE @,
                    !.sender.pc = "loop"]
    /\ UNCHANGED EngineVars

\* cleanup, line 242: the sender is told to stop; the join that follows
\* waits for at most a second
CleanupStop ==
    /\ lora.cleanup = "none"
    /\ lora' = [lora EXCEPT !.sending_active = FALSE, !.cleanup = "join"]
    /\ UNCHANGED EngineVars

\* cleanup, lines 246-249: the device is put to sleep and the connector is
\* no longer connected
CleanupDisconnect ==
    /\ lora.cleanup = "join"
    /\ lora' = [lora EXCEPT !.is_connected = FALSE, !.cleanup = "done"]
    /\ UNCHANGED EngineVars

LoRaInit ==
    /\ \E initialised \in BOOLEAN : lora = LoRaConnector(initialised)
    /\ probe = NoProbe
    /\ registry = ComponentRegistry
    /\ docs = Documents
    /\ current_pipeline = "None"
    /\ pipeline_context = VDict(<<>>)
    /\ ctx_alias = "None"
    /\ running = FALSE
    /\ execution_thread = 0
    /\ runs = [r \in RunIds |-> NoRun]
    /\ nruns = 0
    /\ caller = [pc |-> "idle", run |-> 0, calls |-> 0]
    /\ last_call = [op |-> "init", arg |-> "", ret |-> "None"]
    /\ hist = [log |-> [r \in RunIds |-> <<>>],
               stopped |-> [r \in RunIds |-> FALSE],
               restart |-> [r \in RunIds |-> FALSE],
               stop_idx |-> [r \in RunIds |-> 0],
               late |-> [r \in RunIds |-> 0],
               nfailed |-> 0,
               fresh |-> FALSE,
               terminated |-> FALSE]

LoRaNext ==
    \/ \E c \in SendCallers, text \in MessageTexts : SendMessage(c, text)
    \/ \E c \in SendCallers : SendAcquire(c)
    \/ \E c \in SendCallers : SendAppend(c)
    \/ SenderLoop
    \/ SenderAcquire
    \/ SenderTake
    \/ \E works \in BOOLEAN : SenderSend(works)
    \/ CleanupStop
    \/ CleanupDisconnect

LoRaSpec == LoRaInit /\ [][LoRaNext]_vars

----------------------------------------------------------------------------
(* What the caller reads from the engine's context                         *)

Results == DGet(pipeline_context.d, "results", VDict(<<>>))
Variables == DGet(pipeline_context.d, "variables", VDict(<<>>))
Errors == DGet(pipeline_context.d, "errors", VList(<<>>))

\* the run r has returned
Done(r) == runs[r].phase = "done"

\* the entries of run r's log that completed after a stop() found r alive
AfterStop(r) == {i \in DOMAIN hist.log[r] : hist.log[r][i].after_stop}

----------------------------------------------------------------------------
(* Continue policy                                                         *)

\* C1: a run dispatches its steps in document order, one after the other;
\* after a failed step with continue_on_error the run goes on with the next
\* step, and only a failed step without continue_on_error ends the run at
\* line 157: that step is then the last one the run dispatched, the run's
\* result is False, and the step after it never writes results.  A run that
\* returns True dispatched every step of its document.
ContinuePolicy ==
    /\ \A r \in RunIds :
        /\ \A i \in DOMAIN hist.log[r] :
            /\ hist.log[r][i].idx = i
            /\ (~hist.log[r][i].ok /\ ~hist.log[r][i].coe)
                   => /\ i = Len(hist.log[r])
                      /\ Done(r) /\ runs[r].ret = "False" /\ runs[r].line = 157
            /\ (~hist.log[r][i].ok /\ hist.log[r][i].coe)
                   => \/ i < Len(hist.log[r])
                      \/ runs[r].phase \in {"head", "step"} /\ runs[r].idx = i + 1
                      \/ Done(r) /\ runs[r].line \in {143, 161}
        /\ (Done(r) /\ runs[r].line = 157)
               => /\ hist.log[r] # <<>>
                  /\ ~hist.log[r][Len(hist.log[r])].ok
                  /\ ~hist.log[r][Len(hist.log[r])].coe
        /\ (Done(r) /\ runs[r].ret = "True")
               => Len(hist.log[r]) = Len(StepsOf(runs[r].doc).l)
    /\ ~DHas(Results.d, "S3")

\* one run went on after failed steps and returned True, another one was
\* ended by its failed first step
ContinuePolicyWitness ==
    /\ \E r \in RunIds :
        /\ Done(r) /\ runs[r].ret = "True" /\ runs[r].doc = "continue"
        /\ \E i \in DOMAIN hist.log[r] :
               ~hist.log[r][i].ok /\ hist.log[r][i].coe /\ i < Len(hist.log[r])
    /\ \E r \in RunIds :
        /\ Done(r) /\ runs[r].ret = "False" /\ runs[r].doc = "abort"
        /\ Len(hist.log[r]) = 1 /\ ~hist.log[r][1].ok

----------------------------------------------------------------------------
(* Cancellation and the single execution stream                            *)

\* C2: once stop() has been called on a running engine, a run that was
\* alive at that moment completes at most one more step.
AtMostOneStepAfterStop ==
    \A r \in RunIds : Cardinality(AfterStop(r)) <= 1

\* C3: at most one activation of _execute_pipeline has a step in progress.
SingleExecutionStream ==
    Cardinality({r \in RunIds : runs[r].phase = "step"}) <= 1

----------------------------------------------------------------------------
(* Steps and the context                                                   *)

\* C4: a step whose guard is false leaves the context as it found it: no
\* entry of results under its name, variables, state and errors untouched.
GuardSkipLeavesContext ==
    [][\A r \in RunIds :
          (/\ runs[r].phase = "step"
           /\ Len(hist'.log[r]) > Len(hist.log[r])
           /\ GuardFalse(StepsOf(runs[r].doc).l[runs[r].idx], pipeline_context))
              => pipeline_context' = pipeline_context]_vars

\* C5: errors holds at least one entry for each step that failed since the
\* pipeline was loaded.
EveryFailureRecorded == Len(Errors.l) >= hist.nfailed

\* C6: a step reads what the step before it wrote, at the top level (set_a
\* then set_msg with "${variables.a}!") and in the step list of a loop
\* (set_w then set_y with "${variables.w}").
HappensBefore ==
    /\ (current_pipeline = "vars" /\ DHas(Results.d, "set_msg"))
           => DGet(Variables.d, "msg", VNone) = VLit("2!")
    /\ DHas(Results.d, "set_y")
           => DGet(Variables.d, "y", VNone) = DGet(Variables.d, "w", VNone)

\* C7: when the count loop of n iterations has done its n iterations,
\* variables.x is the string form of n-1 and variables.loop_index is n-1.
LoopCountScenario ==
    \A n \in 1..MaxIterations :
        (/\ current_pipeline = LoopDocId(n)
         /\ DGet(DGet(Results.d, "L", VDict(<<>>)).d, "iterations_done", VNone) = VInt(n))
            => /\ DGet(Variables.d, "x", VNone) = VStr(PyStr(VInt(n - 1)))
               /\ DGet(Variables.d, "loop_index", VNone) = VInt(n - 1)

\* C8: right after load_pipeline returned True the context is the fresh
\* one, with the variables the loaded document declares.
LoadResetsContext ==
    hist.fresh
        => pipeline_context =
               FreshContext(DGet(Documents[current_pipeline].d, "variables", VDict(<<>>)))

----------------------------------------------------------------------------
(* Lifecycle                                                               *)

\* the caller's call that this step makes is start()
StartCalled ==
    /\ caller.pc = "idle"
    /\ caller'.calls = caller.calls + 1
    /\ \/ caller'.pc = "sync"
       \/ caller'.pc = "idle" /\ last_call'.op = "start"

\* C9: a start() with no pipeline loaded, or while running is set, returns
\* False, launches no thread, enters no run, and leaves the engine's fields
\* and the context as they were.
StartMisuseRejected ==
    [][(StartCalled /\ (current_pipeline = "None" \/ running))
          => /\ caller'.pc = "idle"
             /\ last_call'.ret = "False"
             /\ UNCHANGED <<docs, current_pipeline, pipeline_context, ctx_alias,
                            running, execution_thread, runs, nruns>>]_vars

\* a start() was turned down while a run of an earlier start() had already
\* dispatched a step and was still going
StartMisuseWitness ==
    /\ last_call = [op |-> "start", arg |-> "async", ret |-> "False"]
    /\ running
    /\ \E r \in RunIds : is_alive(r) /\ hist.log[r] # <<>>

\* C10: a run entered by a start() that follows a terminated run, with no
\* load_pipeline in between, dispatches no step.
NoDispatchAfterTermination ==
    \A r \in RunIds : hist.restart[r] => (runs[r].phase # "step" /\ hist.log[r] = <<>>)

----------------------------------------------------------------------------
(* Cancellation of a step in progress, order of the steps                  *)

\* C11: a run whose step was in progress when stop() was called does not
\* return True.
NoSuccessAfterStop ==
    \A r \in RunIds : (Done(r) /\ hist.stop_idx[r] # 0) => runs[r].ret # "True"

\* C12: a loop step that was in progress when stop() was called starts no
\* further iteration.
NoIterationAfterStop ==
    \A r \in RunIds : hist.late[r] = 0

\* the step of run r that this step of the engine completes
Completing(r) == Len(hist'.log[r]) > Len(hist.log[r])

\* C13: the steps of a run are dispatched in document order, none skipped
\* over: the step in progress or next to be dispatched is the one after the
\* last completed step.  When a step completes, its result is in results
\* under its name before the run is back at the head of the loop, and only
\* from there the next step is dispatched.
ResultsInOrder ==
    /\ [](\A r \in RunIds :
            /\ \A i \in DOMAIN hist.log[r] : hist.log[r][i].idx = i
            /\ runs[r].phase \in {"head", "step"} => runs[r].idx = Len(hist.log[r]) + 1)
    /\ [][\A r \in RunIds :
            /\ Completing(r)
                   => /\ runs[r].phase = "step"
                      /\ Len(hist'.log[r]) = runs[r].idx
                      /\ DHas(Results'.d, hist'.log[r][runs[r].idx].name)
                      /\ hist'.log[r][runs[r].idx].name
                             = StepName(StepsOf(runs[r].doc).l[runs[r].idx], runs[r].idx - 1)
                      /\ runs'[r].phase \in {"head", "done"}
            /\ (runs[r].phase # "step" /\ runs'[r].phase = "step")
                   => /\ runs[r].phase = "head"
                      /\ runs'[r].idx = Len(hist.log[r]) + 1]_vars

\* a run completed both steps of its document and results holds both
ResultsInOrderWitness ==
    \E r \in RunIds :
        /\ Done(r) /\ runs[r].doc = "vars" /\ Len(hist.log[r]) = 2
        /\ hist.log[r][1].name = "set_a" /\ hist.log[r][2].name = "set_msg"
        /\ DHas(Results.d, "set_a") /\ DHas(Results.d, "set_msg")

----------------------------------------------------------------------------
(* Single steps: loops, pipeline steps, guards                             *)

\* the single step that was run, and what it was run on
StepRan == probe.op = "step"
IsLoopStep == StepRan /\ DGet(probe.arg.d, "component", VNone) = VLit("loop")
IsPipelineStep == StepRan /\ DGet(probe.arg.d, "type", VNone) = VLit("pipeline")
PathOf == KeyOf(DGet(probe.arg.d, "path", VNone))
VariablesBefore == DGet(probe.before.d, "variables", VDict(<<>>))
ErrorsBefore == DGet(probe.before.d, "errors", VList(<<>>))
StepVariables == DGet(probe.arg.d, "variables", VDict(<<>>))
Exporting == Truthy(DGet(probe.arg.d, "export_variables", VBool(FALSE)))

\* how often the loop's step list was executed: every execution is preceded
\* by the write of its index to variables.loop_index, from 0 on
Executions ==
    IF DHas(Variables.d, "loop_index")
    THEN DGet(Variables.d, "loop_index", VNone).n + 1
    ELSE 0

\* the limit of the loop step: its max_iterations, 100 by default
LimitOf ==
    DGet(DGet(probe.arg.d, "params", VDict(<<>>)).d, "max_iterations",
         VInt(DefaultMaxIterations))

\* C14: a loop step executes its step list at most max_iterations times
\* (no time at all for a limit below 1), whatever its type, iterations,
\* condition and collection.
LoopBound ==
    (IsLoopStep /\ LimitOf.t = "int")
        => Executions <= (IF LimitOf.n < 0 THEN 0 ELSE LimitOf.n)

\* the items of `items` whose key `has` does not hold
Absent(items, has) ==
    LET New(kv) == ~DHas(has, kv.k) IN SelectSeq(items, New)

\* the union of parent and step-local variables, the step-local value
\* winning: the parent's keys in their order, then the new ones
UnionOf(parent, local) ==
    [i \in DOMAIN parent |->
        IF DHas(local, parent[i].k) THEN KV(parent[i].k, DGet(local, parent[i].k, VNone))
        ELSE parent[i]]
    \o Absent(local, parent)

\* the variables the sub-run of the file at PathOf ends with: those it
\* started with and what the file's steps set (sub_ok.yaml: b = 2, a = 9)
SubFinalVariables ==
    IF PathOf = "sub_ok.yaml"
    THEN DSet(DSet(UnionOf(VariablesBefore.d, StepVariables.d), "b", VInt(2)), "a", VInt(9))
    ELSE UnionOf(VariablesBefore.d, StepVariables.d)

\* C15: a pipeline step without export_variables leaves the parent's
\* variables as they were; with it, the parent's variables are the old ones,
\* unchanged, followed by the variables of the sub-run that the parent did
\* not have.
ExportOnlyAbsentKeys ==
    IsPipelineStep
        => Variables.d =
               IF Exporting /\ PathOf # "nosuch.yaml"
               THEN VariablesBefore.d \o Absent(SubFinalVariables, VariablesBefore.d)
               ELSE VariablesBefore.d

\* parent {a: 1}, the sub-run sets b = 2 and a = 9: the parent ends with
\* {a: 1, b: 2}
ExportOnlyAbsentKeysWitness ==
    /\ IsPipelineStep /\ Exporting /\ PathOf = "sub_ok.yaml"
    /\ ~DHas(probe.arg.d, "variables")
    /\ VariablesBefore = VDict(<<KV("a", VInt(1))>>)
    /\ Variables = VDict(<<KV("a", VInt(1)), KV("b", VInt(2))>>)

\* C16: the first step of the sub-run sees as variables the union of the
\* parent's variables and the step's own, the step's value winning (the
\* file sub_echo.yaml stores the text of its variables under results.seen).
SubRunSeededWithUnion ==
    (IsPipelineStep /\ PathOf = "sub_echo.yaml")
        => DGet(DGet(probe.res.d, "results", VDict(<<>>)).d, "seen", VNone)
               = VStr(PyStr(VDict(UnionOf(VariablesBefore.d, StepVariables.d))))

\* parent and step both have a value for a
SubRunSeededWithUnionWitness ==
    /\ IsPipelineStep /\ PathOf = "sub_echo.yaml"
    /\ DHas(VariablesBefore.d, "a") /\ DHas(VariablesBefore.d, "c")
    /\ DHas(StepVariables.d, "a")
    /\ DGet(VariablesBefore.d, "a", VNone) # DGet(StepVariables.d, "a", VNone)

\* C17: the result of a pipeline step whose file was loaded is the map of
\* the sub-run's results and errors; the step fails exactly when the sub-run
\* failed (sub_fail.yaml: its shell step exits with 1), and the run is then
\* ended unless the step has continue_on_error.
SubPipelineResultAndFailure ==
    (IsPipelineStep /\ PathOf # "nosuch.yaml")
        => /\ [i \in DOMAIN probe.res.d |-> probe.res.d[i].k] = <<"results", "errors">>
           /\ probe.ok = (PathOf # "sub_fail.yaml")
           /\ probe.abort = (~probe.ok /\ ~Truthy(DGet(probe.arg.d, "continue_on_error",
                                                       VBool(FALSE))))
           /\ DKeys(DGet(probe.res.d, "results", VDict(<<>>)).d)
                  = CASE PathOf = "sub_ok.yaml" -> {"sub_b", "sub_a"}
                      [] PathOf = "sub_fail.yaml" -> {"sub_x"}
                      [] OTHER -> {"seen", "sub_seen"}
           /\ DGet(probe.res.d, "errors", VNone)
                  = IF PathOf = "sub_fail.yaml" THEN VList(<<VLit("Blad komendy shell: ")>>)
                    ELSE VList(<<>>)
           /\ DGet(Results.d, "P", VNone) = probe.res

\* a failed sub-run ended the parent's run
SubPipelineResultAndFailureWitness ==
    /\ IsPipelineStep /\ PathOf = "sub_fail.yaml"
    /\ ~probe.ok /\ probe.abort
    /\ DGet(probe.res.d, "errors", VNone) # VList(<<>>)

\* C18: a step whose guard raises when evaluated is skipped without ending
\* the run, and errors gains a diagnostic.
GuardFailureRecorded ==
    (StepRan /\ DGet(probe.arg.d, "if", VNone) = VLit("undefined_name"))
        => /\ probe.ok /\ ~probe.abort
           /\ Variables = VariablesBefore
           /\ Len(Errors.l) = Len(ErrorsBefore.l) + 1

----------------------------------------------------------------------------
(* Single strings: the resolver                                            *)

Resolved == probe.op = "resolve"

\* does the dotted path lead to a value, from the context's root down
\* through the keys of the maps it meets?
RECURSIVE Reaches(_, _)
Reaches(current, parts) ==
    \/ parts = <<>>
    \/ /\ current.t = "dict"
       /\ DHas(current.d, parts[1])
       /\ Reaches(DGet(current.d, parts[1], VNone), Tail(parts))

\* the literal text of a string, its references left out
LiteralText(atoms) ==
    LET IsLit(a) == ~a.isref IN SNorm(SelectSeq(atoms, IsLit))

\* C19: a string whose references all name paths absent from the context
\* resolves to its literal text, each reference replaced by nothing.
MissYieldsEmpty ==
    (/\ Resolved
     /\ \E i \in DOMAIN probe.arg.s : probe.arg.s[i].isref
     /\ \A i \in DOMAIN probe.arg.s :
            probe.arg.s[i].isref => ~Reaches(probe.before, probe.arg.s[i].path))
        => probe.out = VStr(LiteralText(probe.arg.s))

\* what one atom of a string resolves to, on its own
AtomAlone(ctx, atom) == resolve_variables_in_string(ctx, VStr(<<atom>>)).s

\* the atoms of a string resolved one by one, in order
RECURSIVE EachAlone(_, _)
EachAlone(ctx, atoms) ==
    IF atoms = <<>> THEN <<>>
    ELSE AtomAlone(ctx, atoms[1]) \o EachAlone(ctx, Tail(atoms))

\* C20: a string without a reference resolves to itself; in any string the
\* literal text stays where it is and every reference is replaced by what
\* it resolves to on its own.
LiteralsPreserved ==
    Resolved
        => /\ (\A i \in DOMAIN probe.arg.s : ~probe.arg.s[i].isref) => probe.out = probe.arg
           /\ probe.out = VStr(SNorm(EachAlone(probe.before, probe.arg.s)))
           /\ \A i \in DOMAIN probe.arg.s :
                  ~probe.arg.s[i].isref => AtomAlone(probe.before, probe.arg.s[i])
                                               = <<probe.arg.s[i]>>

\* literal text around two references that resolve to text
LiteralsPreservedWitness ==
    /\ Resolved
    /\ probe.arg = VStr(<<Ref(<<"variables", "d", "k">>), Ref(<<"variables", "a">>)>>)
    /\ probe.out = VLit("v1")

----------------------------------------------------------------------------
(* Whole runs: what the steps of a run leave in the context                *)

\* the step that has just completed in the run, by name or by component
Stepped == probe.op = "run" /\ probe.idx > 0
SteppedAs(component) ==
    Stepped /\ DGet(probe.step.d, "component", VNone) = VLit(component)
Param(key) == DGet(DGet(probe.step.d, "params", VDict(<<>>)).d, key, VNone)
HasParam(key) == DHas(DGet(probe.step.d, "params", VDict(<<>>)).d, key)
ContinuesOnError == Truthy(DGet(probe.step.d, "continue_on_error", VBool(FALSE)))

\* a root map of a context
Root(ctx, root) == DGet(ctx.d, root, VDict(<<>>))

\* the object in a slot of the context: its class and its identity
Handle(ctx, slot) == <<DGet(ctx.d, slot, VNone).s, DGet(ctx.d, slot, VNone).n>>

\* C21: once a collaborator slot of the context holds a handle, no step of
\* the run puts a different handle there.
SlotsWriteOnce ==
    [][\A slot \in CollaboratorSlots :
           DHas(pipeline_context.d, slot)
               => /\ DHas(pipeline_context'.d, slot)
                  /\ Handle(pipeline_context', slot) = Handle(pipeline_context, slot)]_vars

\* the caller's call that this step makes is load_pipeline()
LoadCalled ==
    /\ caller.pc = "idle"
    /\ caller'.pc = "idle"
    /\ caller'.calls = caller.calls + 1
    /\ last_call'.op = "load"

\* C22: a load_pipeline call made while a run is in progress (the engine is
\* Running, or a thread is still going through the steps) replaces neither
\* the pipeline nor the context.
LoadOnlyWhenNotRunning ==
    [][(LoadCalled /\ (running \/ \E r \in RunIds : is_alive(r)))
          => /\ current_pipeline' = current_pipeline
             /\ pipeline_context' = pipeline_context]_vars

\* the texts with which the connectors report an error
IsErrorText(v) ==
    /\ v.t = "str"
    /\ \/ StartsWith(TextOf(v.s), "Blad komunikacji")
       \/ StartsWith(TextOf(v.s), "Blad API")
       \/ StartsWith(TextOf(v.s), "Blad:")

\* the query of the LLM step just completed ended in a timeout or an error
\* of the model that was asked last: the remote model of an llm_query; for
\* a local_llm the local model when there is no fallback, the remote model
\* after a fallback from the unavailable local model
QueryFailed ==
    \/ SteppedAs("llm_query") /\ HasParam("output_var")
           /\ ApiOutcome(Param("text")) # "ok"
    \/ SteppedAs("local_llm") /\ HasParam("output_var")
           /\ OllamaOutcome(Param("text")) # "ok"
           /\ (Param("fallback_to_api") = VBool(FALSE) \/ ApiOutcome(Param("text")) # "ok")

\* C23: an llm_query or local_llm step whose collaborator timed out or
\* returned an error reports failure, the run aborts unless the step has
\* continue_on_error, and neither results[output_var] nor
\* state.last_response holds the error text.
CollaboratorErrorFailsStep ==
    QueryFailed
        => /\ ~probe.ok
           /\ (runs[1].phase = "done" /\ runs[1].ret = "False") <=> ~ContinuesOnError
           /\ ~IsErrorText(DGet(Root(pipeline_context, "results").d, KeyOf(Param("output_var")),
                                VNone))
           /\ ~IsErrorText(DGet(Root(pipeline_context, "state").d, "last_response", VNone))

\* C24: a local_llm step with fallback_to_api (the default) whose local
\* model reported an error stores the reply of the API connector.
LocalFallsBackToApi ==
    (/\ SteppedAs("local_llm") /\ HasParam("output_var")
     /\ OllamaOutcome(Param("text")) # "ok"
     /\ Truthy(DGet(DGet(probe.step.d, "params", VNone).d, "fallback_to_api", VBool(TRUE))))
        => /\ DGet(Root(probe.left, "results").d, KeyOf(Param("output_var")), VNone)
                  = ApiQuery(Param("text"))
           /\ probe.res = VDict(<<KV("response", ApiQuery(Param("text")))>>)

\* a variable_set step's write is in the context: the value under its name
\* in its scope, and the step's record in results
SetScope(step) == TextOf(get_param(DGet(step.d, "params", VNone), "scope", VLit("variables")).s)
SetName(step) == KeyOf(DGet(DGet(step.d, "params", VNone).d, "name", VNone))
Wrote(ctx, step) ==
    /\ DHas(Root(ctx, "results").d, KeyOf(DGet(step.d, "name", VNone)))
    /\ DHas(Root(ctx, SetScope(step)).d, SetName(step))
    /\ DGet(Root(ctx, SetScope(step)).d, SetName(step), VNone)
           = DGet(DGet(step.d, "params", VNone).d, "value", VNone)
Untouched(ctx, step) ==
    /\ ~DHas(Root(ctx, "results").d, KeyOf(DGet(step.d, "name", VNone)))
    /\ ~DHas(Root(ctx, SetScope(step)).d, SetName(step))

\* the condition step just completed has an expression that is true, or
\* one that is false
ConditionIs(truth) ==
    SteppedAs("condition") /\ Param("condition") = VLit(IF truth THEN "True" ELSE "1 == 2")

\* what C25 says of a condition step whose expression has this truth value
BranchOutcome(truth, chosen, other) ==
    /\ probe.ok
    /\ \A i \in DOMAIN chosen.l : Wrote(pipeline_context, chosen.l[i])
    /\ \A i \in DOMAIN other.l : Untouched(pipeline_context, other.l[i])
    /\ HasParam("output_var")
           => DGet(Root(probe.left, "results").d, KeyOf(Param("output_var")), VNone)
                  = VBool(truth)
    /\ chosen.l = <<>>
           => probe.left = IF HasParam("output_var")
                           THEN CtxPut(probe.before, "results", KeyOf(Param("output_var")),
                                       VBool(truth))
                           ELSE probe.before
    /\ pipeline_context = CtxPut(probe.left, "results", probe.name, probe.res)

ResolvedParam(key, default) ==
    DGet(resolve_variables(probe.before, DGet(probe.step.d, "params", VDict(<<>>))).d,
         key, default)

\* C26: a variable_set step writes the engine-resolved value under `name`
\* into the scope named by `scope` (variables by default) and nowhere else,
\* and returns it as the value of its result; with a scope that is none of
\* variables, state, results it fails and writes nothing.
VariableSetWritesResolved ==
    (SteppedAs("variable_set") /\ probe.name = "S")
        => IF ResolvedParam("scope", VLit("variables"))
                  \in {VLit("variables"), VLit("state"), VLit("results")}
           THEN /\ probe.ok
                /\ probe.left = CtxPut(probe.before,
                                       TextOf(ResolvedParam("scope", VLit("variables")).s),
                                       KeyOf(ResolvedParam("name", VNone)),
                                       ResolvedParam("value", VNone))
                /\ DGet(probe.res.d, "value", VNone) = ResolvedParam("value", VNone)
                /\ DGet(Root(pipeline_context, "results").d, "S", VNone) = probe.res
           ELSE ~probe.ok /\ probe.left = probe.before

\* the params a component requires, with those its action or type requires
Required(component, params) ==
    CASE component = VLit("variable_set") -> {"name", "value"}
      [] component = VLit("condition") -> {"condition"}
      [] component = VLit("text_to_speech") -> {"text"}
      [] component \in {VLit("llm_query"), VLit("local_llm")} -> {"text", "output_var"}
      [] component = VLit("loop") ->
             {"type", "steps"}
             \cup (CASE DGet(params.d, "type", VNone) = VLit("count") -> {"iterations"}
                     [] DGet(params.d, "type", VNone) = VLit("while") -> {"condition"}
                     [] DGet(params.d, "type", VNone) = VLit("for") -> {"collection", "item_var"}
                     [] OTHER -> {})
      [] component = VLit("timer") ->
             {"action"}
             \cup (CASE DGet(params.d, "action", VNone) = VLit("sleep") -> {"duration"}
                     [] DGet(params.d, "action", VNone)
                            \in {VLit("measure_start"), VLit("measure_end")} -> {"timer_name"}
                     [] OTHER -> {})
      [] component = VLit("cache") ->
             {"action"}
             \cup (CASE DGet(params.d, "action", VNone) = VLit("get") -> {"key", "output_var"}
                     [] DGet(params.d, "action", VNone) = VLit("set") -> {"key", "value"}
                     [] OTHER -> {})
      [] OTHER -> {}

\* the component step just completed was given params that lack a required one
LacksRequired ==
    /\ Stepped
    /\ DGet(probe.step.d, "type", VNone) = VLit("component")
    /\ \E key \in Required(DGet(probe.step.d, "component", VNone),
                           DGet(probe.step.d, "params", VDict(<<>>))) : ~HasParam(key)

\* C27: a component step that lacks a required param fails with an error
\* record as its result, nothing is raised to the dispatcher (errors is as
\* it was), and variables, state and the other entries of results are
\* unchanged: results only gains the step's failure record.
MissingParamsFailCleanly ==
    LacksRequired
        => /\ ~probe.ok
           /\ DKeys(probe.res.d) = {"error"}
           /\ Root(pipeline_context, "errors") = Root(probe.before, "errors")
           /\ Root(pipeline_context, "variables") = Root(probe.before, "variables")
           /\ Root(pipeline_context, "state") = Root(probe.before, "state")
           /\ Root(pipeline_context, "results")
                  = VDict(DSet(Root(probe.before, "results").d, probe.name, probe.res))

\* a cache get without output_var, after a step that wrote state and results
MissingParamsFailCleanlyWitness ==
    /\ LacksRequired
    /\ SteppedAs("cache") /\ Param("action") = VLit("get")
    /\ DGet(Root(pipeline_context, "state").d, "b", VNone) = VInt(2)
    /\ DHas(Root(pipeline_context, "results").d, "p")
    /\ DHas(Root(pipeline_context, "results").d, "M")

\* a measure_start of this timer name completed earlier in the run
StartedEarlier(timer_name) ==
    \E i \in 1..(probe.idx - 1) :
        LET params == DGet(StepsOf("run").l[i].d, "params", VDict(<<>>))
        IN  /\ DGet(params.d, "action", VNone) = VLit("measure_start")
            /\ DGet(params.d, "timer_name", VNone) = timer_name

\* C28: measure_start succeeds and records a start time under the timer's
\* name; a later measure_end of that name succeeds, reports the duration and
\* writes it to results[output_var] when given; a measure_end of a name
\* that was not started fails and writes nothing.
TimerProtocol ==
    SteppedAs("timer")
        => CASE Param("action") = VLit("measure_start") ->
                    /\ probe.ok
                    /\ DHas(Root(pipeline_context, "timers").d, KeyOf(Param("timer_name")))
             [] Param("action") = VLit("measure_end") /\ StartedEarlier(Param("timer_name")) ->
                    /\ probe.ok
                    /\ DHas(probe.res.d, "duration")
                    /\ HasParam("output_var")
                           => DGet(Root(probe.left, "results").d, KeyOf(Param("output_var")),
                                   VNone) = DGet(probe.res.d, "duration", VNone)
             [] OTHER -> ~probe.ok /\ probe.left = probe.before

\* the handler of the step just completed wrote results[key] itself
HandlerWrote(key) ==
    /\ DHas(Root(probe.left, "results").d, key)
    /\ \/ ~DHas(Root(probe.before, "results").d, key)
       \/ DGet(Root(probe.left, "results").d, key, VNone)
              # DGet(Root(probe.before, "results").d, key, VNone)

\* how many times results[key] was written while the step was dispatched:
\* by its handler, and by the engine under the step's name
WritesTo(key) ==
    (IF HandlerWrote(key) THEN 1 ELSE 0) + (IF key = probe.name THEN 1 ELSE 0)

\* C29: while a step is dispatched every key of results is written at most
\* once, and a key that several steps write holds what the last of them wrote.
SingleWritePerStep ==
    Stepped
        => /\ \A key \in DKeys(Root(pipeline_context, "results").d) : WritesTo(key) <= 1
           /\ HandlerWrote("o")
                  => DGet(Root(pipeline_context, "results").d, "o", VNone)
                         = DGet(Root(probe.left, "results").d, "o", VNone)

\* the root that a guard expression looks up
RootOf(expr) ==
    CASE expr \in {"state['x'] == 1", "context['state']['x'] == 1"} -> "state"
      [] expr = "variables['x'] == 1" -> "variables"
      [] expr = "results['x'] == 1" -> "results"
      [] OTHER -> "errors"

\* C30: a guard that compares an existing entry of one of the roots
\* (variables, results, state, through `context` too) or looks at errors
\* evaluates to the comparison's value: the step runs exactly when the
\* comparison is true.
GuardRootsEvaluate ==
    (/\ Stepped /\ probe.name = "G"
     /\ \/ RootOf(TextOf(DGet(probe.step.d, "if", VNone).s)) = "errors"
        \/ DHas(Root(probe.before, RootOf(TextOf(DGet(probe.step.d, "if", VNone).s))).d, "x"))
        => (probe.res # VNone)
               <=> \/ RootOf(TextOf(DGet(probe.step.d, "if", VNone).s)) = "errors"
                   \/ DGet(Root(probe.before,
                                RootOf(TextOf(DGet(probe.step.d, "if", VNone).s))).d,
                           "x", VNone) = VInt(1)

----------------------------------------------------------------------------
(* Whole runs: references in params, loops, branches, the registry         *)

\* what the caller's component was given under this key of its params
SpyGot(key) == DGet(DGet(probe.res.d, "spy", VDict(<<>>)).d, key, VNone)

\* the declared variable x of the run's document
DeclaredX == DGet(Root(probe.before, "variables").d, "x", VNone)

\* str(x) for the values of x the documents declare, as Python prints it
StrOfX ==
    CASE DeclaredX = VInt(5) -> "5"
      [] DeclaredX = VBool(TRUE) -> "True"
      [] DeclaredX = VNone -> "None"
      [] DeclaredX = VList(<<VInt(1), VInt(2)>>) -> "[1, 2]"
      [] DeclaredX = VDict(<<KV("a", VInt(1))>>) -> "{'a': 1}"
      [] OTHER -> "txt"

\* C31: a param that is one whole reference, "${variables.x}", reaches the
\* component as the string form of x whatever the type of x (number,
\* boolean, None, list, mapping, string), never as the structured value; so
\* does such a string inside a list param, and a param that is not a string
\* is handed on as it is.
WholeReferenceIsText ==
    (Stepped /\ probe.step = SpyStep)
        => /\ probe.ok
           /\ SpyGot("p").t = "str"
           /\ SpyGot("p") = VLit(StrOfX)
           /\ SpyGot("l") = VList(<<VLit(StrOfX)>>)
           /\ SpyGot("n") = VInt(5)

\* the component was given the text "[1, 2]" for the list [1, 2]
WholeReferenceIsTextWitness ==
    /\ Stepped /\ probe.step = SpyStep
    /\ DeclaredX = VList(<<VInt(1), VInt(2)>>)
    /\ SpyGot("p") = VLit("[1, 2]")

\* the iteration (from 0) in which the body of the loop just completed
\* fails: the one its guarded step names, 3 for none of the three
FailIndex ==
    LET guard == TextOf(DGet(Param("steps").l[2].d, "if", VNone).s)
    IN  CASE guard = "variables['loop_index'] == 0" -> 0
          [] guard = "variables['loop_index'] == 1" -> 1
          [] guard = "variables['loop_index'] == 2" -> 2
          [] OTHER -> 3

IterationsDone == DGet(probe.res.d, "iterations_done", VNone)

\* C32: in a count, a while and a for loop, when the nested step list of an
\* iteration fails no further iteration starts, the loop step reports
\* failure, and iterations_done counts the iterations completed before the
\* failing one; a loop whose iterations all succeed reports them all.
LoopStopsAtFailedIteration ==
    (Stepped /\ probe.name = "L")
        => IF FailIndex < 3
           THEN /\ ~probe.ok
                /\ DHas(probe.res.d, "error")
                /\ IterationsDone = VInt(FailIndex)
                /\ DGet(Root(probe.left, "variables").d, "loop_index", VNone)
                       = VInt(FailIndex)
                /\ Param("type") = VLit("for")
                       => DGet(Root(probe.left, "variables").d, "it", VNone)
                              = Param("collection").l[FailIndex + 1]
                /\ DHas(DGet(Root(probe.left, "results").d, "bad", VNone).d, "error")
                /\ DGet(Root(pipeline_context, "results").d, "L", VNone) = probe.res
           ELSE /\ probe.ok
                /\ IterationsDone = VInt(3)
                /\ DGet(Root(probe.left, "variables").d, "loop_index", VNone) = VInt(2)

\* a while loop whose second iteration failed: one iteration is counted
LoopStopsAtFailedIterationWitness ==
    /\ Stepped /\ probe.name = "L" /\ Param("type") = VLit("while")
    /\ FailIndex = 1
    /\ ~probe.ok /\ IterationsDone = VInt(1)

\* the list that the run's document declares as the variable items
DeclaredItems == DGet(Root(probe.before, "variables").d, "items", VNone).l

\* min(n, max_iterations) for the for loop just completed over n items
ExpectedIterations ==
    IF HasParam("max_iterations")
    THEN Min(Len(DeclaredItems), Param("max_iterations").n)
    ELSE Min(Len(DeclaredItems), DefaultMaxIterations)

\* C35: a for loop whose collection is given as a reference to a list of n
\* elements does min(n, max_iterations) iterations and binds
\* variables[item_var] to the elements of the list, in order.
ForOverReferenceIterates ==
    (Stepped /\ probe.name = "F")
        => /\ probe.ok
           /\ IterationsDone = VInt(ExpectedIterations)
           /\ ExpectedIterations > 0
                  => /\ DGet(Root(probe.left, "variables").d, "it", VNone)
                            = DeclaredItems[ExpectedIterations]
                     /\ DGet(Root(probe.left, "variables").d, "loop_index", VNone)
                            = VInt(ExpectedIterations - 1)

\* C36: what a reference resolved to is data and is not resolved again: with
\* variables.v holding the text "${state.secret}", a variable_set step whose
\* value is "${variables.v}" stores that text, the same whatever
\* state.secret is.
ResolvedDataNotReinterpreted ==
    (/\ Stepped /\ probe.name = "S"
     /\ Param("value") = VRef(<<"variables", "v">>)
     /\ SetScope(probe.step) \in {"variables", "state", "results"})
        => /\ probe.ok
           /\ DGet(Root(probe.left, SetScope(probe.step)).d, "msg", VNone)
                  = VRef(<<"state", "secret">>)
           /\ DGet(probe.res.d, "value", VNone) = VRef(<<"state", "secret">>)

\* C37: a condition step succeeds whenever its expression evaluates, also
\* when a step of the chosen branch failed and ended the branch: its result
\* is the expression's value, the failed step's record is in results, the
\* steps of the branch after it did not run, and the run goes on with the
\* step after the condition step.
ConditionSucceedsWhateverBranch ==
    (Stepped /\ probe.name = "J")
        => /\ probe.ok
           /\ probe.res = VDict(<<KV("condition_result", VBool(DeclaredX = VInt(1)))>>)
           /\ DHas(DGet(Root(probe.left, "results").d, "B", VNone).d, "error")
           /\ DHas(Root(probe.left, "results").d, "T") <=> DeclaredX = VInt(1)
           /\ ~DHas(Root(probe.left, "results").d, "T3")
           /\ ~DHas(Root(probe.left, "results").d, "F")
           /\ runs[1].phase \in {"head", "step"} /\ runs[1].idx = 2

\* the step after the condition step ran on a context that holds the failed
\* branch step's record and the condition step's successful result
ConditionSucceedsWhateverBranchWitness ==
    /\ Stepped /\ probe.name = "after" /\ probe.ok
    /\ DHas(DGet(Root(probe.before, "results").d, "B", VNone).d, "error")
    /\ DGet(Root(probe.before, "results").d, "J", VNone)
           = VDict(<<KV("condition_result", VBool(TRUE))>>)

\* the result of the nested step of the step just completed: of the step
\* itself when it is not nested, of the file's first step for a pipeline
\* step, else of n1 in the loop body or the branch
NestedResult ==
    IF probe.name = "n1" THEN probe.res
    ELSE IF DGet(probe.step.d, "type", VNone) = VLit("pipeline")
    THEN DGet(DGet(probe.res.d, "results", VDict(<<>>)).d, "P1", VNone)
    ELSE DGet(Root(probe.left, "results").d, "n1", VNone)

\* C38: a component registered, or registered again under a built-in name,
\* in the engine's registry executes every later step of that name in the
\* engine's run: at the top level, in a loop body, in a condition branch and
\* in a sub-pipeline.
RegisteredComponentExecutesNested ==
    (Stepped /\ probe.name \in {"N", "n1"} /\ registry = SpyRegistry)
        => DHas(NestedResult.d, "spy")

\* C39: a segment equal to variables, results, state or errors moves the
\* walk to that root of the context wherever it occurs: "${results.state}"
\* gives the string form of the state map, also when results has an entry
\* under the key state, which no reference reaches; other segments descend.
RootsRestartWalk ==
    (Stepped /\ probe.step = RootsStep)
        => /\ probe.ok
           /\ DHas(Root(probe.before, "results").d, "state")
           /\ SpyGot("r1") = VStr(PyStr(Root(probe.before, "state")))
           /\ SpyGot("r1") \in {VLit("{'secret': 41}"), VLit("{'secret': 42}")}
           /\ SpyGot("r2") = VLit("")
           /\ SpyGot("r3") = VLit("7")
           /\ SpyGot("r4") = VStr(PyStr(Root(probe.before, "results")))
           /\ SpyGot("r5") = SpyGot("r1")

\* results holds an entry under state, and the reference gave the state map
RootsRestartWalkWitness ==
    /\ Stepped /\ probe.step = RootsStep
    /\ DGet(DGet(Root(probe.before, "results").d, "state", VNone).d, "value", VNone)
           = VLit("n")
    /\ SpyGot("r1") = VLit("{'secret': 42}")

----------------------------------------------------------------------------
(* Loading and starting                                                    *)

\* C33: whenever a synchronous start() that ran the pipeline returns, for
\* any loaded document (the empty document and an empty steps list
\* included), the engine is no longer running, so that a following start()
\* is not rejected as already running.
SyncStartClearsRunning ==
    [][\A r \in RunIds :
           (runs[r].mode = "sync" /\ runs[r].phase # "done" /\ runs'[r].phase = "done")
               => ~running']_vars

\* C34: a load that fails is atomic: when load_pipeline or
\* load_pipeline_from_file returns False (a file that is missing or does not
\* parse, a document that is not a mapping), the current pipeline and the
\* context are exactly as before the call.
FailedLoadIsAtomic ==
    [][(/\ caller'.calls = caller.calls + 1
        /\ last_call'.op \in {"load", "load_file"}
        /\ last_call'.ret = "False")
           => /\ current_pipeline' = current_pipeline
              /\ pipeline_context' = pipeline_context
              /\ docs' = docs]_vars

----------------------------------------------------------------------------
(* The LoRa send queue                                                     *)

\* where a message stands in a sequence of messages
PositionIn(messages, message) == CHOOSE i \in DOMAIN messages : messages[i] = message

\* C40: every message that send_message accepted is handed to the radio at
\* most once, and the messages reach the radio in the order in which they
\* were put on the queue; a send_message that finds the connector not
\* connected puts nothing on the queue and returns False.
SendQueueInOrder ==
    /\ \A i \in DOMAIN lora.radio :
           /\ \E j \in DOMAIN lora.accepted : lora.accepted[j] = lora.radio[i]
           /\ \A k \in DOMAIN lora.radio :
                  i < k => PositionIn(lora.accepted, lora.radio[i])
                               < PositionIn(lora.accepted, lora.radio[k])
    /\ \A i \in DOMAIN lora.calls :
           /\ lora.calls[i].ret = lora.calls[i].connected
           /\ lora.calls[i].ret
                  <=> \E j \in DOMAIN lora.accepted :
                          lora.accepted[j].id = lora.calls[i].id
    /\ \A i \in DOMAIN lora.message_queue :
           \E j \in DOMAIN lora.accepted : lora.accepted[j] = lora.message_queue[i]

\* two messages of concurrent callers reached the radio, the one appended
\* second having been given its id first, and a later call was turned away
SendQueueInOrderWitness ==
    /\ Len(lora.radio) = 2
    /\ lora.radio[1].id > lora.radio[2].id
    /\ \E i \in DOMAIN lora.calls : ~lora.calls[i].ret

====
